---- MODULE Spec2Model ----
(***************************************************************************)
(* The data-access layer of daytona: the abstract DBConnection contract    *)
(* (dbConnection.js) and its four adapters (sqlite3DBConnection.js,        *)
(* mysqlDBConnection.js, pgConnection.js, mongodbConnection.js), as one    *)
(* adapter instance used by a few asynchronous callers.                    *)
(*                                                                         *)
(* Every `await` of the source is a point where another call may run, so   *)
(* a call is a small process: the action that starts it runs the code up   *)
(* to the first await, and one action per await resumes it.  An await of a *)
(* promise that is already settled is such a point too.  The storage       *)
(* engine is outside the repository: each engine call nondeterministically *)
(* succeeds or fails, and a statement that succeeds changes the one table  *)
(* of the model as the engine would.                                       *)
(*                                                                         *)
(* CrudSpec looks at the CRUD methods with the values they take and        *)
(* return: a connected adapter, awaited calls, a working engine that fails *)
(* only on a statement or a parameter it cannot accept.                    *)
(***************************************************************************)
EXTENDS Integers, FiniteSets, Sequences, TLC

\* ------------------------------------------------------------------ bounds

\* Number of calls that may be in flight on the one adapter instance.
NumCallers == 2
\* Calls issued in one run in which calls overlap.
MaxCalls == 4
\* Pools / handles / document clients the engine may create in one run.
MaxResources == 2
\* Pooled clients the pool may hand out in one run.
MaxClients == 2
\* Environment objects and EnvErrors the env module constructs in one run.
MaxEnvObjects == 3
\* Rows the one table may hold at a time.
MaxRows == 2
\* Rows inserted in one run: the generated ids are 1..MaxInserts.
MaxInserts == 3
\* Column values are 1..MaxValue.
MaxValue == 2
\* Rows inserted in one run in which the connection's life cycle is followed.
MaxStored == 1

Callers == 1..NumCallers
ResourceIds == 1..MaxResources
ClientIds == 1..MaxClients

\* ------------------------------------------------------------- the classes

Sqlite == "Sqlite3Connection"
MySQL == "MySQLDBConnection"
Postgres == "PostgresDBConnection"
Mongo == "MongoDBConnection"
\* A concrete subclass of DBConnection that overrides nothing.
Bare == "BareConnection"
Abstract == "DBConnection"

Adapters == {Sqlite, MySQL, Postgres, Mongo}
Relational == {Sqlite, MySQL, Postgres}
Pooled == {MySQL, Postgres}
Classes == Adapters \cup {Bare, Abstract}

\* ---------------------------------------------------------- the operations

CrudOps == {"insert", "update", "delete", "findById", "findBy", "findAll",
            "findOne", "count"}
SchemaOps == {"createTable", "dropTable", "createIndex", "dropIndex"}
TxOps == {"beginTransaction", "commit", "rollback"}
TerminalOps == {"commit", "rollback"}
RawOps == {"query", "mongoCommand"}
Hooks == {"_connectInternal", "_disconnectInternal"}
\* Operations that issue one statement or command to the engine.
DataOps == CrudOps \cup SchemaOps \cup RawOps
\* Document-adapter operations that reach the engine through getCollection.
CollectionOps == (CrudOps \cup SchemaOps) \ {"createTable"}

\* The methods of DBConnection each class overrides.
Overrides(c) ==
  CASE c = Sqlite -> Hooks \cup CrudOps \cup SchemaOps \cup TxOps \cup {"query"}
    [] c = MySQL -> Hooks \cup CrudOps \cup SchemaOps \cup TxOps \cup {"query"}
    [] c = Postgres -> Hooks \cup CrudOps \cup SchemaOps \cup TxOps \cup {"query"}
    [] c = Mongo -> Hooks \cup CrudOps \cup SchemaOps \cup TxOps \cup {"mongoCommand"}
    [] OTHER -> {}

\* ------------------------------------------------------------- the outcomes

Ok == "ok"
TypeError == "TypeError"
ReferenceError == "ReferenceError"
ConfigTypeError == "config must be an object"
AbstractError == "DBConnection is abstract and must be subclassed."
NotConnected == "Database not connected"
AlreadyInProgress == "Transaction already in progress"
NoTransaction == "No transaction in progress"
NotImplemented == "is not implemented"
MongoTxUnsupported == "MongoDB transactions not implemented in base class"
EngineError == "EngineError"

\* Arguments handed to a constructor.
ConfigArgs == {"undefined", "null", "emptyObject", "object", "string"}

VARIABLES
  cls,                \* the class named after `new`
  inst,               \* "none" | "ok" | "failed": outcome of the construction
  ctorError,          \* what the constructor threw
  ctorArg,            \* the argument the constructor was given
  connected,          \* this._connected
  pool,               \* this._pool (MySQL, Postgres); 0 is null
  db,                 \* this._db (Sqlite handle, Mongo Db); 0 is null
  client,             \* this._client (Mongo); 0 is null
  transactionClient,  \* this._transactionClient (Postgres), this._connection (MySQL)
  inTransaction,      \* this._inTransaction (Sqlite)
  nextResource,       \* engine: id of the next pool / handle / client created
  live,               \* engine: resources created and not closed
  nextClient,         \* engine: id of the next pooled client handed out
  out,                \* engine: pooled clients checked out and not released
  releases,           \* engine: release() calls received, per pooled client
  calls,              \* the calls in flight, per caller
  last,               \* the call that has just returned, or NoCall
  rows,               \* engine: the rows / documents of the one table, in order
  nextId,             \* engine: the next generated row id
  exists,             \* engine: the table exists
  autoinc,            \* engine: the table never gives an id twice (SQLite:
                      \* its id column is AUTOINCREMENT)
  rowid,              \* engine: last_insert_rowid() of the embedded handle
  snapshot,           \* engine: the open transaction, the table a ROLLBACK puts back
  crud,               \* the CRUD call that has just returned, or NoCrud
  processEnv,         \* process.env: NODE_ENV and ENCRYPT_KEY
  envInstance,        \* env.js: _env
  envError,           \* env.js: _envError
  envInitializedLogged, \* env.js: _envInitializedLogged
  envCreated,         \* Environment objects and EnvErrors constructed so far
  envAccess,          \* the access to the env module that has just ended
  begun,              \* the client of the transaction the caller has begun
                      \* and not ended (history), 0 when there is none
  started             \* calls issued so far where calls overlap

adapterVars == <<connected, pool, db, client, transactionClient, inTransaction>>
engineVars == <<nextResource, live, nextClient, out, releases>>
tableVars == <<rows, nextId, exists, autoinc, rowid, snapshot>>
dataVars == <<tableVars, crud>>
envVars == <<processEnv, envInstance, envError, envInitializedLogged,
             envCreated, envAccess>>
vars == <<cls, inst, ctorError, ctorArg, connected, pool, db, client,
          transactionClient, inTransaction, nextResource, live, nextClient, out,
          releases, calls, last, rows, nextId, crud, processEnv, envInstance,
          envError, envInitializedLogged, envCreated, envAccess, begun, started, exists,
          autoinc, rowid, snapshot>>

\* -------------------------------------------------- values and stored rows

\* The one table (collection) of the model has a generated id column and the
\* columns of Fields.  A stored row is a record [id, a, b]; for the document
\* adapter `id` is the number of the document's ObjectId (_id).
Fields == {"a", "b"}
FieldValues == 1..MaxValue
Ids == 1..MaxInserts

\* A JavaScript value, tagged with what it is: t is the tag, n a number, id
\* a row id, rs rows, m the entries of a plain object in property order.
Value(t) == [t |-> t, n |-> 0, id |-> 0, rs |-> <<>>, m |-> <<>>]
UndefinedValue == Value("undefined")
Null == Value("null")
Num(k) == [Value("number") EXCEPT !.n = k]
\* The string that spells id k: its decimal digits for the SQL engines, its
\* 24 hex digits for the document engine.
StrOf(k) == [Value("string") EXCEPT !.n = k]
ObjectId(k) == [Value("ObjectId") EXCEPT !.id = k]
\* A plain object {k1: v1, ...}: m = <<<<k1, v1>>, ...>>, numbers as values.
Mapping(m) == [Value("object") EXCEPT !.m = m]
\* {_id: ObjectId(k)}
IdFilter(k) == [Value("idFilter") EXCEPT !.id = k]
RowValue(r) == [Value("row") EXCEPT !.rs = <<r>>]
RowArray(rs) == [Value("array") EXCEPT !.rs = rs]
\* better-sqlite3's result of run(): {changes, lastInsertRowid}
RunResult(changes, lastInsertRowid) ==
  [Value("runResult") EXCEPT !.n = changes, !.id = lastInsertRowid]
\* {insertId: k}
InsertIdObject(k) == [Value("insertIdObject") EXCEPT !.id = k]

\* `typeof v === "object"`
TypeofObject(v) == v.t \notin {"undefined", "number", "string"}
\* Object.entries(v), Object.keys(m), Object.values(m)
Entries(v) == IF v.t = "object" THEN v.m ELSE <<>>
Keys(m) == [i \in 1..Len(m) |-> m[i][1]]
Vals(m) == [i \in 1..Len(m) |-> Num(m[i][2])]
\* rows[0] || null
FirstOrNull(rs) == IF rs = <<>> THEN Null ELSE RowValue(rs[1])

\* The schema createTable is given for the one table: its columns id, a and
\* b, the id column `INTEGER PRIMARY KEY` or `INTEGER PRIMARY KEY
\* AUTOINCREMENT` (n = 1).
PlainSchema == Value("schema")
AutoincrementSchema == [Value("schema") EXCEPT !.n = 1]
Schemas == {PlainSchema, AutoincrementSchema}

\* An option the caller left out.
Undefined == -1
\* `options.limit ? ... : ...` on a number or undefined
TruthyNumber(n) == n # Undefined /\ n # 0
NoOptions == [limit |-> Undefined, offset |-> Undefined, skip |-> Undefined]

\* ------------------------------------------------------------ SQL statements

\* A statement as the adapters build it: the SET assignments and the WHERE
\* predicates are <<column, placeholder number>> pairs, whereKw says that the
\* text holds the keyword WHERE, limit / offset are the LIMIT / OFFSET
\* clauses (Undefined when the text has none), params is the array passed
\* along.  `?` placeholders are numbered by the engine in textual order.
Statement(verb) ==
  [verb |-> verb, set |-> <<>>, whereKw |-> FALSE, where |-> <<>>,
   limit |-> Undefined, offset |-> Undefined, params |-> <<>>,
   returning |-> FALSE]

\* Mutant of Numbered: every clause numbers its placeholders from $1.
NumberedFromOne(cols, from) == [i \in 1..Len(cols) |-> <<cols[i], i>>]

\* columns.map((k, i) => `${k} = $${from + i + 1}`)
Numbered(cols, from) == [i \in 1..Len(cols) |-> <<cols[i], from + i>>]

\* The placeholder numbers a statement uses.
Placeholders(stmt) ==
  {stmt.set[i][2] : i \in 1..Len(stmt.set)}
    \cup {stmt.where[i][2] : i \in 1..Len(stmt.where)}

\* A value the SQL drivers bind as a number or a text.
Scalar(v) == v.t \in {"number", "string"}

\* The engine or the driver rejects the statement: WHERE with no predicate,
\* SET with no assignment, placeholders and parameters that do not pair up,
\* OFFSET without LIMIT (SQLite, MySQL), an object as a parameter
\* (better-sqlite3 refuses to bind it, pg sends it as JSON text, which is no
\* integer; mysql2 sends JSON, which the engine compares as unequal).
SqlRejects(c, stmt) ==
  \/ stmt.whereKw /\ stmt.where = <<>>
  \/ stmt.verb = "update" /\ stmt.set = <<>>
  \/ Placeholders(stmt) # 1..Len(stmt.params)
  \/ c \in {Sqlite, MySQL} /\ stmt.offset # Undefined /\ stmt.limit = Undefined
  \/ c \in {Sqlite, Postgres} /\ \E i \in 1..Len(stmt.params) : ~Scalar(stmt.params[i])

\* Row r satisfies every predicate of the WHERE clause.
Satisfies(r, stmt) ==
  \A i \in 1..Len(stmt.where) :
    LET p == stmt.params[stmt.where[i][2]]
    IN  Scalar(p) /\ r[stmt.where[i][1]] = p.n

\* Row r after the SET assignments.
Assign(r, stmt) ==
  LET New(f) ==
        IF \E i \in 1..Len(stmt.set) : stmt.set[i][1] = f
          THEN LET i == CHOOSE j \in 1..Len(stmt.set) : stmt.set[j][1] = f
               IN  stmt.params[stmt.set[i][2]].n
          ELSE r[f]
  IN  [id |-> r.id, a |-> New("a"), b |-> New("b")]

\* OFFSET then LIMIT on a result.
Page(rs, limit, offset) ==
  LET from == IF offset = Undefined THEN 0
              ELSE IF offset > Len(rs) THEN Len(rs) ELSE offset
      rest == SubSeq(rs, from + 1, Len(rs))
  IN  IF limit = Undefined \/ limit >= Len(rest) THEN rest
      ELSE SubSeq(rest, 1, limit)

\* The largest id in the table, 0 when it is empty.
MaxId(tbl) ==
  IF tbl = <<>> THEN 0
  ELSE CHOOSE m \in {tbl[i].id : i \in 1..Len(tbl)} :
         \A i \in 1..Len(tbl) : tbl[i].id <= m

\* The id the engine gives the row an INSERT stores, nid being the next
\* value of the table's id sequence. SQLite gives a plain INTEGER PRIMARY KEY
\* the largest id in the table plus one, so the id of a deleted last row is
\* given again; AUTOINCREMENT and the other engines never give an id twice.
GeneratedId(c, tbl, nid) ==
  IF c = Sqlite /\ ~autoinc THEN MaxId(tbl) + 1 ELSE nid

\* What a statement does to the table tbl (nid is the next value of its id
\* sequence): out is Ok or EngineError, rows the table afterwards, rs the
\* rows the statement returns, changes the number of rows it affected.
SqlExecute(c, tbl, nid, stmt) ==
  LET Hit(r) == Satisfies(r, stmt)
      Miss(r) == ~Satisfies(r, stmt)
      matched == SelectSeq(tbl, Hit)
      fresh == Assign([id |-> GeneratedId(c, tbl, nid), a |-> 0, b |-> 0], stmt)
  IN  IF SqlRejects(c, stmt)
        THEN [out |-> EngineError, rows |-> tbl, rs |-> <<>>, changes |-> 0]
      ELSE IF stmt.verb = "select"
        THEN [out |-> Ok, rows |-> tbl,
              rs |-> Page(matched, stmt.limit, stmt.offset), changes |-> 0]
      ELSE IF stmt.verb = "update"
        THEN [out |-> Ok,
              rows |-> [i \in 1..Len(tbl) |->
                          IF Hit(tbl[i]) THEN Assign(tbl[i], stmt) ELSE tbl[i]],
              rs |-> [i \in 1..Len(matched) |-> Assign(matched[i], stmt)],
              changes |-> Len(matched)]
      ELSE IF stmt.verb = "delete"
        THEN [out |-> Ok, rows |-> SelectSeq(tbl, Miss), rs |-> <<>>,
              changes |-> Len(matched)]
      ELSE IF stmt.verb = "count"
        \* SELECT COUNT(*) AS count: one row, its count column in changes
        THEN [out |-> Ok, rows |-> tbl, rs |-> <<>>, changes |-> Len(matched)]
      ELSE [out |-> Ok, rows |-> Append(tbl, fresh), rs |-> <<fresh>>,
            changes |-> 1]

\* ------------------------------------------------- the adapters' statements

\* insert of the three relational adapters: the row's keys as columns, one
\* placeholder per key, the row's values as parameters (RETURNING * on
\* Postgres).
InsertStatement(c, row) ==
  [Statement("insert") EXCEPT !.set = Numbered(Keys(Entries(row)), 0),
                              !.params = Vals(Entries(row)),
                              !.returning = (c = Postgres)]

\* Sqlite3Connection.update(table, id, updates): always `WHERE id = ?`.
Sqlite3Update(id, updates) ==
  LET keys == Keys(Entries(updates))
  IN  [Statement("update") EXCEPT
         !.set = Numbered(keys, 0),
         !.whereKw = TRUE,
         !.where = <<<<"id", Len(keys) + 1>>>>,
         !.params = Vals(Entries(updates)) \o <<id>>]

\* PostgresDBConnection.update / MySQLDBConnection.update: SET takes the
\* first placeholders; the filter is built from the entries of an object, or
\* is `id = <next placeholder>` for anything else.
PooledUpdate(c, idOrCriteria, updates) ==
  LET keys == Keys(Entries(updates))
      criteria == Entries(idOrCriteria)
  IN  IF TypeofObject(idOrCriteria)
        THEN [Statement("update") EXCEPT
                !.set = Numbered(keys, 0),
                !.whereKw = TRUE,
                !.where = Numbered(Keys(criteria), Len(keys)),
                !.params = Vals(Entries(updates)) \o Vals(criteria),
                !.returning = (c = Postgres)]
        ELSE [Statement("update") EXCEPT
                !.set = Numbered(keys, 0),
                !.whereKw = TRUE,
                !.where = <<<<"id", Len(keys) + 1>>>>,
                !.params = Vals(Entries(updates)) \o <<idOrCriteria>>,
                !.returning = (c = Postgres)]

UpdateStatement(c, idOrCriteria, updates) ==
  IF c = Sqlite THEN Sqlite3Update(idOrCriteria, updates)
  ELSE PooledUpdate(c, idOrCriteria, updates)

\* Sqlite3Connection.delete(table, id): always `WHERE id = ?`.
Sqlite3Delete(id) ==
  [Statement("delete") EXCEPT !.whereKw = TRUE, !.where = <<<<"id", 1>>>>,
                              !.params = <<id>>]

\* PostgresDBConnection.delete / MySQLDBConnection.delete
PooledDelete(idOrCriteria) ==
  LET criteria == Entries(idOrCriteria)
  IN  IF TypeofObject(idOrCriteria)
        THEN [Statement("delete") EXCEPT
                !.whereKw = TRUE,
                !.where = Numbered(Keys(criteria), 0),
                !.params = Vals(criteria)]
        ELSE [Statement("delete") EXCEPT
                !.whereKw = TRUE,
                !.where = <<<<"id", 1>>>>,
                !.params = <<idOrCriteria>>]

DeleteStatement(c, idOrCriteria) ==
  IF c = Sqlite THEN Sqlite3Delete(idOrCriteria)
  ELSE PooledDelete(idOrCriteria)

\* findById: `WHERE id = <placeholder>` (MySQL adds LIMIT 1).
FindByIdStatement(c, id) ==
  [Statement("select") EXCEPT !.whereKw = TRUE, !.where = <<<<"id", 1>>>>,
                              !.params = <<id>>,
                              !.limit = IF c = MySQL THEN 1 ELSE Undefined]

\* findAll of the three relational adapters: WHERE only when the criteria
\* has entries, LIMIT / OFFSET only when the option is truthy.
FindAllStatement(criteria, options) ==
  LET where == Numbered(Keys(Entries(criteria)), 0)
  IN  [Statement("select") EXCEPT
         !.whereKw = (where # <<>>),
         !.where = where,
         !.params = Vals(Entries(criteria)),
         !.limit = IF TruthyNumber(options.limit) THEN options.limit
                   ELSE Undefined,
         !.offset = IF TruthyNumber(options.offset) THEN options.offset
                    ELSE Undefined]

\* Mutant of CountStatement: the criteria is left out of the statement.
CountEverything(criteria) == Statement("count")

\* count of the three relational adapters: SELECT COUNT(*) with the WHERE of
\* findAll, no LIMIT or OFFSET.
CountStatement(criteria) ==
  LET where == Numbered(Keys(Entries(criteria)), 0)
  IN  [Statement("count") EXCEPT
         !.whereKw = (where # <<>>),
         !.where = where,
         !.params = Vals(Entries(criteria))]

\* ------------------------------------------------------- the document engine

\* new ObjectId(v): the id a 24-hex string spells, the ObjectId itself; a
\* number makes a new ObjectId from a timestamp, which no document has (0).
NewObjectId(v) ==
  IF v.t = "string" THEN v.n
  ELSE IF v.t = "ObjectId" THEN v.id
  ELSE 0

\* MongoDBConnection._buildFilter
BuildFilter(idOrCriteria) ==
  IF idOrCriteria.t = "string" \/ idOrCriteria.t = "ObjectId"
    THEN IdFilter(NewObjectId(idOrCriteria))
    ELSE idOrCriteria

\* The driver takes a document as a filter and nothing else.
FilterRejected(filter) == filter.t \notin {"idFilter", "object"}

\* Document r matches the filter.
MongoMatches(r, filter) ==
  IF filter.t = "idFilter" THEN r.id = filter.id
  ELSE \A i \in 1..Len(filter.m) : r[filter.m[i][1]] = filter.m[i][2]

\* Document r after {$set: updates}.
SetFields(r, updates) ==
  LET m == Entries(updates)
      New(f) ==
        IF \E i \in 1..Len(m) : m[i][1] = f
          THEN LET i == CHOOSE j \in 1..Len(m) : m[j][1] = f IN m[i][2]
          ELSE r[f]
  IN  [id |-> r.id, a |-> New("a"), b |-> New("b")]

\* The position of the first document matching the filter, 0 when none does.
FirstMatch(tbl, filter) ==
  IF \E i \in 1..Len(tbl) : MongoMatches(tbl[i], filter)
    THEN CHOOSE i \in 1..Len(tbl) :
           /\ MongoMatches(tbl[i], filter)
           /\ \A j \in 1..(i - 1) : ~MongoMatches(tbl[j], filter)
    ELSE 0

\* collection.find(filter) with cursor.limit / cursor.skip applied.
MongoFind(tbl, filter, limit, skip) ==
  LET Hit(r) == MongoMatches(r, filter)
  IN  Page(SelectSeq(tbl, Hit), limit, skip)

\* ------------------------------------------------------ the CRUD operations

\* What a CRUD method does, as a record: out is Ok or what it throws, rows
\* and nextId the engine's table afterwards, ret the value it resolves to,
\* stmt the SQL statement it issued, filter the filter it gave the document
\* engine.
Done(o, tbl, nid, ret, stmt, filter) ==
  [out |-> o, rows |-> tbl, nextId |-> nid, ret |-> ret, stmt |-> stmt,
   filter |-> filter]

NoStatement == Statement("none")

\* insert(table, row): Postgres resolves to the stored row (RETURNING *),
\* SQLite to the run result, MySQL to {insertId}, MongoDB to insertedId.
insert(c, tbl, nid, row) ==
  IF c = Mongo
    THEN Done(Ok, Append(tbl, SetFields([id |-> nid, a |-> 0, b |-> 0], row)),
              nid + 1, ObjectId(nid), NoStatement, UndefinedValue)
    ELSE LET stmt == InsertStatement(c, row)
             res == SqlExecute(c, tbl, nid, stmt)
         IN  IF res.out # Ok
               THEN Done(res.out, tbl, nid, UndefinedValue, stmt, UndefinedValue)
               ELSE Done(Ok, res.rows, res.rs[1].id + 1,
                         CASE c = Postgres -> RowValue(res.rs[1])
                           [] c = Sqlite -> RunResult(res.changes, res.rs[1].id)
                           [] c = MySQL -> InsertIdObject(res.rs[1].id),
                         stmt, UndefinedValue)

\* What update / delete resolve to on the relational adapters: res.rows on
\* Postgres' update and res.rowCount on its delete, the run result on SQLite
\* (rid is the handle's last_insert_rowid()), affectedRows on MySQL.
Affected(c, verb, res, rid) ==
  CASE c = Postgres -> IF verb = "update" THEN RowArray(res.rs)
                       ELSE Num(res.changes)
    [] c = Sqlite -> RunResult(res.changes, rid)
    [] c = MySQL -> Num(res.changes)

\* update(table, idOrCriteria, updates); on MongoDB updateOne with $set,
\* resolving to modifiedCount.
update(c, tbl, nid, rid, idOrCriteria, updates) ==
  IF c = Mongo
    THEN LET filter == BuildFilter(idOrCriteria)
             i == FirstMatch(tbl, filter)
         IN  IF FilterRejected(filter)
               THEN Done(EngineError, tbl, nid, UndefinedValue, NoStatement, filter)
             ELSE IF i = 0
               THEN Done(Ok, tbl, nid, Num(0), NoStatement, filter)
             ELSE Done(Ok, [tbl EXCEPT ![i] = SetFields(tbl[i], updates)], nid,
                       Num(IF SetFields(tbl[i], updates) = tbl[i] THEN 0 ELSE 1),
                       NoStatement, filter)
    ELSE LET stmt == UpdateStatement(c, idOrCriteria, updates)
             res == SqlExecute(c, tbl, nid, stmt)
         IN  IF res.out # Ok
               THEN Done(res.out, tbl, nid, UndefinedValue, stmt, UndefinedValue)
               ELSE Done(Ok, res.rows, nid, Affected(c, "update", res, rid),
                         stmt, UndefinedValue)

\* delete(table, idOrCriteria); on MongoDB deleteOne, resolving to
\* deletedCount.
delete(c, tbl, nid, rid, idOrCriteria) ==
  IF c = Mongo
    THEN LET filter == BuildFilter(idOrCriteria)
             i == FirstMatch(tbl, filter)
         IN  IF FilterRejected(filter)
               THEN Done(EngineError, tbl, nid, UndefinedValue, NoStatement, filter)
             ELSE IF i = 0
               THEN Done(Ok, tbl, nid, Num(0), NoStatement, filter)
             ELSE Done(Ok, SubSeq(tbl, 1, i - 1) \o SubSeq(tbl, i + 1, Len(tbl)),
                       nid, Num(1), NoStatement, filter)
    ELSE LET stmt == DeleteStatement(c, idOrCriteria)
             res == SqlExecute(c, tbl, nid, stmt)
         IN  IF res.out # Ok
               THEN Done(res.out, tbl, nid, UndefinedValue, stmt, UndefinedValue)
               ELSE Done(Ok, res.rows, nid, Affected(c, "delete", res, rid),
                         stmt, UndefinedValue)

\* findById(table, id): rows[0] || null; on MongoDB
\* findOne({_id: new ObjectId(id)}).
findById(c, tbl, nid, id) ==
  IF c = Mongo
    THEN LET filter == IdFilter(NewObjectId(id))
         IN  Done(Ok, tbl, nid, FirstOrNull(MongoFind(tbl, filter, 1, Undefined)),
                  NoStatement, filter)
    ELSE LET stmt == FindByIdStatement(c, id)
             res == SqlExecute(c, tbl, nid, stmt)
         IN  IF res.out # Ok
               THEN Done(res.out, tbl, nid, UndefinedValue, stmt, UndefinedValue)
               ELSE Done(Ok, tbl, nid, FirstOrNull(res.rs), stmt, UndefinedValue)

\* findAll(table, criteria, options); on MongoDB find(criteria) with
\* cursor.limit / cursor.skip when the option is truthy.
findAll(c, tbl, nid, criteria, options) ==
  IF c = Mongo
    THEN Done(Ok, tbl, nid,
              RowArray(MongoFind(tbl, criteria,
                                 IF TruthyNumber(options.limit)
                                   THEN options.limit ELSE Undefined,
                                 IF TruthyNumber(options.skip)
                                   THEN options.skip ELSE Undefined)),
              NoStatement, criteria)
    ELSE LET stmt == FindAllStatement(criteria, options)
             res == SqlExecute(c, tbl, nid, stmt)
         IN  IF res.out # Ok
               THEN Done(res.out, tbl, nid, UndefinedValue, stmt, UndefinedValue)
               ELSE Done(Ok, tbl, nid, RowArray(res.rs), stmt, UndefinedValue)

\* Mutant of ForcedLimit: { limit: 1 }, the caller's other options are dropped.
OnlyLimit(options) == [NoOptions EXCEPT !.limit = 1]

\* { ...options, limit: 1 }
ForcedLimit(options) == [options EXCEPT !.limit = 1]

\* findOne(table, criteria, options): findAll with { ...options, limit: 1 }
\* and rows[0] || null on the relational adapters; on MongoDB the driver's
\* collection.findOne(criteria, options), which honours skip and reads one
\* document whatever limit the options hold.
findOne(c, tbl, nid, criteria, options) ==
  IF c = Mongo
    THEN Done(Ok, tbl, nid,
              FirstOrNull(MongoFind(tbl, criteria, 1, options.skip)),
              NoStatement, criteria)
    ELSE LET r == findAll(c, tbl, nid, criteria, ForcedLimit(options))
         IN  IF r.out # Ok THEN r
             ELSE [r EXCEPT !.ret = FirstOrNull(r.ret.rs)]

\* count(table, criteria): res.rows[0].count (Postgres, cast to int by the
\* statement), result[0]?.count || 0 (SQLite, MySQL); on MongoDB
\* countDocuments(criteria).
count(c, tbl, nid, criteria) ==
  IF c = Mongo
    THEN Done(Ok, tbl, nid, Num(Len(MongoFind(tbl, criteria, Undefined, Undefined))),
              NoStatement, criteria)
    ELSE LET stmt == CountStatement(criteria)
             res == SqlExecute(c, tbl, nid, stmt)
         IN  IF res.out # Ok
               THEN Done(res.out, tbl, nid, UndefinedValue, stmt, UndefinedValue)
               ELSE Done(Ok, tbl, nid, Num(res.changes), stmt, UndefinedValue)

\* --------------------------------------------------------------- call frames

NoCall == [op |-> "none", out |-> "none", errCls |-> "none", errOp |-> "none",
           client |-> 0, preConnected |-> FALSE, preActive |-> FALSE,
           ecalls |-> 0, efail |-> 0]

\* What a CRUD or raw call is given: idOrCriteria / id / criteria, updates,
\* options, the row to insert, and the statement of a raw query().
NoArgs == [arg |-> UndefinedValue, upd |-> UndefinedValue, opts |-> NoOptions,
           row |-> UndefinedValue, sql |-> NoStatement, cmd |-> "none"]

\* A frame: op the method, pc the await it is suspended at, args its
\* arguments, ret what a promise it awaits has already settled to.
IdleCall == [op |-> "none", pc |-> "idle", client |-> 0, res |-> 0,
             preConnected |-> FALSE, preActive |-> FALSE, ecalls |-> 0,
             args |-> NoArgs, ret |-> NoCall]

\* The adapter's TransactionState is Active.
TxActive == IF cls = Sqlite THEN inTransaction ELSE transactionClient # 0

\* The frame of a call of op that starts in the current state.
Frame(op) == [op |-> op, pc |-> "idle", client |-> 0, res |-> 0,
              preConnected |-> connected, preActive |-> TxActive, ecalls |-> 0,
              args |-> NoArgs, ret |-> NoCall]

\* The record of a call that returns (o = Ok) or throws o.
Returned(f, o) ==
  [op |-> f.op, out |-> o, errCls |-> "none", errOp |-> "none",
   client |-> f.client, preConnected |-> f.preConnected,
   preActive |-> f.preActive, ecalls |-> f.ecalls, efail |-> 0]

\* Mutant of Rejected: the state check comes after a call to the engine.
RejectedAfterEngineCall(f, err) ==
  [Returned(f, err) EXCEPT !.ecalls = f.ecalls + 1]

\* `if (this._transactionClient) throw ...` / `if (!this._transactionClient)
\* throw ...` as the first statement of a transaction method: the call is
\* rejected before anything else has run.
Rejected(f, err) == Returned(f, err)

\* Mutant of EngineFailure: the rejection is swallowed, the call returns.
EngineFailureSwallowed(f) == [Returned(f, Ok) EXCEPT !.efail = 1]

\* The engine call a method awaits rejects. No adapter method has a
\* try / catch: the method rejects with the engine's error at once (efail
\* counts the engine calls of this call that failed).
EngineFailure(f) == [Returned(f, EngineError) EXCEPT !.efail = 1]

\* Mutant of NotImplementedError: the error names the contract class instead
\* of the class of the instance.
NotImplementedNamesContract(f, methodName) ==
  [Returned(f, NotImplemented) EXCEPT !.errCls = Abstract, !.errOp = methodName]

\* DBConnection._notImplemented(methodName): the error names the class of the
\* instance (this.constructor.name) and the method.
NotImplementedError(f, methodName) ==
  [Returned(f, NotImplemented) EXCEPT !.errCls = cls, !.errOp = methodName]

AllIdle == \A c \in Callers : calls[c].pc = "idle"

\* No CRUD call has returned yet.
NoCrud == [op |-> "none"]


\* env.js as loaded: `let _env = undefined; let _envError = undefined;
\* let _envInitializedLogged = false;`, with NODE_ENV and ENCRYPT_KEY as the
\* process found them.
NoEnvironment == [id |-> 0, mode |-> "none", encryptKey |-> "none"]
NoEnvError == [id |-> 0, message |-> "none"]
NoAccess == [op |-> "none", out |-> "none", instance |-> 0, error |-> 0,
             read |-> FALSE, logged |-> FALSE, hadInstance |-> 0,
             hadError |-> 0]
EnvLoaded(nodeEnv, key) ==
  /\ processEnv = [NODE_ENV |-> nodeEnv, ENCRYPT_KEY |-> key]
  /\ envInstance = NoEnvironment
  /\ envError = NoEnvError
  /\ envInitializedLogged = FALSE
  /\ envCreated = 0
  /\ envAccess = NoAccess

\* No transaction is open in the engine.
NoSnapshot == [client |-> 0, rows |-> <<>>, nextId |-> 1, exists |-> TRUE,
               autoinc |-> TRUE, same |-> TRUE]

\* No adapter has been constructed. The servers of the pooled and the
\* document adapters hold the table, empty; the embedded adapter's database
\* is made by its connect().
AdapterInit ==
  /\ cls = "none"
  /\ inst = "none"
  /\ ctorError = "none"
  /\ ctorArg = "none"
  /\ connected = FALSE
  /\ pool = 0
  /\ db = 0
  /\ client = 0
  /\ transactionClient = 0
  /\ inTransaction = FALSE
  /\ nextResource = 1
  /\ live = {}
  /\ nextClient = 1
  /\ out = {}
  /\ releases = [k \in ClientIds |-> 0]
  /\ calls = [c \in Callers |-> IdleCall]
  /\ last = NoCall
  /\ rows = <<>>
  /\ nextId = 1
  /\ crud = NoCrud
  /\ begun = 0
  /\ started = 0
  /\ exists = TRUE
  /\ autoinc = TRUE
  /\ rowid = 0
  /\ snapshot = NoSnapshot

Init == AdapterInit /\ EnvLoaded("unset", "unset")

\* -------------------------------------------------------------- construction

\* DBConnection's and the adapters' `constructor(config = {})`: undefined
\* becomes {} before it reaches Configurable.
DefaultedConfig(arg) == IF arg = "undefined" THEN "emptyObject" ELSE arg

\* JavaScript truthiness of the argument, as `if (config)` tests it.
Truthy(arg) == arg \in {"emptyObject", "object", "string"}

\* Configurable's constructor: a truthy config is processed; a non-object is
\* refused, and an object reaches `new Confirm(config)`, a name the module
\* never binds.
ConfigurableError(arg) ==
  IF ~Truthy(arg) THEN Ok
  ELSE IF arg = "string" THEN ConfigTypeError
  ELSE ReferenceError

\* Mutant of IsAbstract: the constructor lacks the new.target check.
NeverAbstract(target) == FALSE

\* `new.target === DBConnection`
IsAbstract(target) == target = Abstract

\* The outcome of `new target(arg)`.
ConstructorOutcome(target, arg) ==
  IF ConfigurableError(DefaultedConfig(arg)) # Ok
    THEN ConfigurableError(DefaultedConfig(arg))
  ELSE IF IsAbstract(target) THEN AbstractError
  ELSE Ok

Construct(target, arg) ==
  /\ inst # "ok"
  /\ cls' = target
  /\ ctorArg' = arg
  /\ ctorError' = ConstructorOutcome(target, arg)
  /\ inst' = IF ConstructorOutcome(target, arg) = Ok THEN "ok" ELSE "failed"
  /\ UNCHANGED <<adapterVars, engineVars, calls, last, dataVars, envVars, begun,
                 started>>

\* ------------------------------------------------------- helpers on frames

\* The caller's view of the transaction once the call of rec has ended: a
\* beginTransaction() that returned normally on a pooled adapter has begun
\* one on the client it reserved, a commit() or rollback() that returned
\* normally has ended it.
Begun(rec) ==
  IF cls \in Pooled /\ rec.out = Ok /\ rec.op = "beginTransaction"
    THEN rec.client
  ELSE IF cls \in Pooled /\ rec.out = Ok /\ rec.op \in TerminalOps
    THEN 0
  ELSE begun

\* The call of caller c ends: rec is what it returned or threw, its frame is
\* dropped.
Finish(c, rec) ==
  /\ calls' = [calls EXCEPT ![c] = IdleCall]
  /\ last' = rec
  /\ begun' = Begun(rec)
  /\ UNCHANGED <<ctorArg, crud, envVars>>

\* The call of caller c suspends at an await with frame f.
Suspend(c, f) ==
  /\ calls' = [calls EXCEPT ![c] = f]
  /\ last' = NoCall
  /\ UNCHANGED <<ctorArg, crud, envVars, begun>>

Called(f) == [f EXCEPT !.ecalls = @ + 1]

At(c, label) == inst = "ok" /\ calls[c].pc = label

\* A new call takes the lowest free frame: the callers are interchangeable.
CanStart(c) ==
  /\ At(c, "idle")
  /\ \A d \in Callers : d < c => calls[d].pc # "idle"

\* ------------------------------------------------- DBConnection: the stubs

\* Every method of DBConnection a class leaves alone: _notImplemented(name).
Stub(c, op) ==
  /\ CanStart(c)
  /\ op \in (DataOps \cup TxOps \cup Hooks) \ Overrides(cls)
  /\ Finish(c, NotImplementedError(Frame(op), op))
  /\ UNCHANGED <<tableVars, cls, inst, ctorError, adapterVars, engineVars>>

\* ------------------------------------------------------ connect, disconnect

\* The engine's table as the adapter's connections see it.
Table ==
  [rows |-> rows, nextId |-> nextId, exists |-> exists, autoinc |-> autoinc,
   rowid |-> rowid, snapshot |-> snapshot]

\* The engine's table is t after the step.
TableBecomes(t) ==
  /\ rows' = t.rows
  /\ nextId' = t.nextId
  /\ exists' = t.exists
  /\ autoinc' = t.autoinc
  /\ rowid' = t.rowid
  /\ snapshot' = t.snapshot

\* `new Database(this.config.path || ":memory:")`: the only adapter that can
\* be constructed has no path in its config, so every handle is a database of
\* its own. It starts empty, with no table until createTable makes one and
\* last_insert_rowid() at 0, and it is gone, with its table, its id sequence
\* and its open transaction, once the handle is closed or replaced.
NewDatabase ==
  [rows |-> <<>>, nextId |-> 1, exists |-> FALSE, autoinc |-> TRUE,
   rowid |-> 0, snapshot |-> NoSnapshot]

\* The step opens, closes or replaces the embedded handle.
HandleReplaced == cls = Sqlite /\ db' # db

\* The engine's side of a transaction. BEGIN on connection k (a pooled
\* client, the embedded handle) opens one: the engine remembers the table as
\* it is (same: the table has not been dropped since). ROLLBACK on k puts
\* that table back, COMMIT on k keeps the changes; either ends the
\* transaction, and on any other connection changes nothing.
\* last_insert_rowid() belongs to the handle and is not put back.
Opened(k) ==
  [Table EXCEPT !.snapshot = [client |-> k, rows |-> rows, nextId |-> nextId,
                              exists |-> exists, autoinc |-> autoinc,
                              same |-> TRUE]]
Ended(k, op) ==
  IF snapshot.client # k THEN Table
  ELSE IF op = "rollback"
    THEN [rows |-> snapshot.rows, nextId |-> snapshot.nextId,
          exists |-> snapshot.exists, autoinc |-> snapshot.autoinc,
          rowid |-> rowid, snapshot |-> NoSnapshot]
  ELSE [Table EXCEPT !.snapshot = NoSnapshot]

\* Mutant of ConnectIsNoop: connect() lacks its guard.
ConnectNeverNoop == FALSE

\* `if (this._connected) return;`
ConnectIsNoop == connected

\* `if (!this._connected) return;`
DisconnectIsNoop == ~connected

\* A hook (_connectInternal, _disconnectInternal) has run to its end or to a
\* throw with record rec. Called on its own, that ends the call; inside
\* connect() / disconnect() the caller sits at `await this._connectInternal()`
\* / `await this._disconnectInternal()` and resumes, with the hook's promise
\* settled to rec, when its turn comes.
HookSettled(c, f, rec) ==
  IF f.op \in Hooks
    THEN Finish(c, rec)
    ELSE Suspend(c, [f EXCEPT !.pc = IF f.op = "connect" THEN "connect_hook"
                                    ELSE "disconnect_hook",
                             !.ret = rec])

\* _connectInternal up to its first await, for the call with frame f
\* (connect() past its guard, or the hook called on its own).
ConnectInternal(c, f) ==
  CASE "_connectInternal" \notin Overrides(cls) ->
         /\ HookSettled(c, f, NotImplementedError(f, "_connectInternal"))
         /\ UNCHANGED <<adapterVars, engineVars>>
    [] cls = Sqlite ->
         \* this._db = new Database(dbPath): opening the file may fail
         /\ nextResource <= MaxResources
         /\ \E ok \in BOOLEAN :
              IF ok
                THEN /\ db' = nextResource
                     /\ live' = live \cup {nextResource}
                     /\ nextResource' = nextResource + 1
                     /\ HookSettled(c, Called(f), Returned(Called(f), Ok))
                     /\ UNCHANGED <<connected, pool, client, transactionClient,
                                    inTransaction, nextClient, out, releases>>
                ELSE /\ HookSettled(c, Called(f), EngineFailure(Called(f)))
                     /\ UNCHANGED <<adapterVars, engineVars>>
    [] cls \in Pooled ->
         \* this._pool = createPool(...) / new Pool(...): a lazy pool
         /\ nextResource <= MaxResources
         /\ pool' = nextResource
         /\ live' = live \cup {nextResource}
         /\ nextResource' = nextResource + 1
         /\ HookSettled(c, Called(f), Returned(Called(f), Ok))
         /\ UNCHANGED <<connected, db, client, transactionClient,
                        inTransaction, nextClient, out, releases>>
    [] cls = Mongo ->
         \* this._client = new MongoClient(uri); await this._client.connect()
         /\ nextResource <= MaxResources
         /\ client' = nextResource
         /\ live' = live \cup {nextResource}
         /\ nextResource' = nextResource + 1
         /\ Suspend(c, [Called(f) EXCEPT !.pc = "mongo_connect"])
         /\ UNCHANGED <<connected, pool, db, transactionClient,
                        inTransaction, nextClient, out, releases>>

Connect(c) ==
  /\ CanStart(c)
  /\ IF ConnectIsNoop
       THEN /\ Finish(c, Returned(Frame("connect"), Ok))
            /\ UNCHANGED <<adapterVars, engineVars>>
       ELSE ConnectInternal(c, Frame("connect"))
  /\ TableBecomes(IF HandleReplaced THEN NewDatabase ELSE Table)
  /\ UNCHANGED <<cls, inst, ctorError>>

\* adapter._connectInternal() called on its own: the hook is an ordinary
\* method of the instance. It never looks at or sets _connected.
ConnectInternalDirect(c) ==
  /\ CanStart(c)
  /\ "_connectInternal" \in Overrides(cls)
  /\ ConnectInternal(c, Frame("_connectInternal"))
  /\ TableBecomes(IF HandleReplaced THEN NewDatabase ELSE Table)
  /\ UNCHANGED <<cls, inst, ctorError>>

\* `await this._client.connect()` settles; then this._db = this._client.db(name).
MongoClientConnects(c) ==
  /\ At(c, "mongo_connect")
  /\ \E ok \in BOOLEAN :
       IF ~ok
         THEN /\ Finish(c, EngineFailure(calls[c]))
              /\ UNCHANGED <<adapterVars, engineVars>>
       ELSE IF client = 0
         THEN /\ Finish(c, Returned(calls[c], TypeError))
              /\ UNCHANGED <<adapterVars, engineVars>>
       ELSE /\ db' = client
            /\ HookSettled(c, calls[c], Returned(calls[c], Ok))
            /\ UNCHANGED <<connected, pool, client, transactionClient,
                           inTransaction, engineVars>>
  /\ UNCHANGED <<tableVars, cls, inst, ctorError>>

\* connect() resumes from `await this._connectInternal()`: it throws what the
\* hook threw, or sets this._connected = true.
ConnectReturns(c) ==
  /\ At(c, "connect_hook")
  /\ connected' = (IF calls[c].ret.out = Ok THEN TRUE ELSE connected)
  /\ Finish(c, calls[c].ret)
  /\ UNCHANGED <<tableVars, cls, inst, ctorError, pool, db, client,
                 transactionClient, inTransaction, engineVars>>

\* _disconnectInternal up to its first await, for the call with frame f
\* (disconnect() past its guard, or the hook called on its own).
DisconnectInternal(c, f) ==
  CASE "_disconnectInternal" \notin Overrides(cls) ->
         /\ HookSettled(c, f, NotImplementedError(f, "_disconnectInternal"))
         /\ UNCHANGED <<adapterVars, engineVars>>
    [] cls = Sqlite ->
         \* if (this._db) { this._db.close(); this._db = null; }
         IF db = 0
           THEN /\ HookSettled(c, f, Returned(f, Ok))
                /\ UNCHANGED <<adapterVars, engineVars>>
           ELSE \E ok \in BOOLEAN :
                  IF ok
                    THEN /\ live' = live \ {db}
                         /\ db' = 0
                         /\ HookSettled(c, Called(f), Returned(Called(f), Ok))
                         /\ UNCHANGED <<connected, pool, client, transactionClient,
                                        inTransaction, nextResource, nextClient,
                                        out, releases>>
                    ELSE /\ HookSettled(c, Called(f), EngineFailure(Called(f)))
                         /\ UNCHANGED <<adapterVars, engineVars>>
    [] cls \in Pooled ->
         \* if (this._pool) { await this._pool.end(); this._pool = null; }
         /\ IF pool = 0
              THEN HookSettled(c, f, Returned(f, Ok))
              ELSE Suspend(c, [Called(f) EXCEPT !.pc = "pool_end", !.res = pool])
         /\ UNCHANGED <<adapterVars, engineVars>>
    [] cls = Mongo ->
         \* if (this._client) { await this._client.close(); ... }
         /\ IF client = 0
              THEN HookSettled(c, f, Returned(f, Ok))
              ELSE Suspend(c, [Called(f) EXCEPT !.pc = "mongo_close", !.res = client])
         /\ UNCHANGED <<adapterVars, engineVars>>

Disconnect(c) ==
  /\ CanStart(c)
  /\ IF DisconnectIsNoop
       THEN /\ Finish(c, Returned(Frame("disconnect"), Ok))
            /\ UNCHANGED <<adapterVars, engineVars>>
       ELSE DisconnectInternal(c, Frame("disconnect"))
  /\ TableBecomes(IF HandleReplaced THEN NewDatabase ELSE Table)
  /\ UNCHANGED <<cls, inst, ctorError>>

\* adapter._disconnectInternal() called on its own.
DisconnectInternalDirect(c) ==
  /\ CanStart(c)
  /\ "_disconnectInternal" \in Overrides(cls)
  /\ DisconnectInternal(c, Frame("_disconnectInternal"))
  /\ TableBecomes(IF HandleReplaced THEN NewDatabase ELSE Table)
  /\ UNCHANGED <<cls, inst, ctorError>>

\* `await this._pool.end()` settles; then this._pool = null.
PoolEnds(c) ==
  /\ At(c, "pool_end")
  /\ \E ok \in BOOLEAN :
       IF ok
         THEN /\ live' = live \ {calls[c].res}
              /\ pool' = 0
              /\ HookSettled(c, calls[c], Returned(calls[c], Ok))
              /\ UNCHANGED <<connected, db, client, transactionClient,
                             inTransaction, nextResource, nextClient, out, releases>>
         ELSE /\ Finish(c, EngineFailure(calls[c]))
              /\ UNCHANGED <<adapterVars, engineVars>>
  /\ UNCHANGED <<tableVars, cls, inst, ctorError>>

\* `await this._client.close()` settles; then this._client = null; this._db = null.
MongoClientCloses(c) ==
  /\ At(c, "mongo_close")
  /\ \E ok \in BOOLEAN :
       IF ok
         THEN /\ live' = live \ {calls[c].res}
              /\ client' = 0
              /\ db' = 0
              /\ HookSettled(c, calls[c], Returned(calls[c], Ok))
              /\ UNCHANGED <<connected, pool, transactionClient, inTransaction,
                             nextResource, nextClient, out, releases>>
         ELSE /\ Finish(c, EngineFailure(calls[c]))
              /\ UNCHANGED <<adapterVars, engineVars>>
  /\ UNCHANGED <<tableVars, cls, inst, ctorError>>

\* disconnect() resumes from `await this._disconnectInternal()`: it throws
\* what the hook threw, or sets this._connected = false.
DisconnectReturns(c) ==
  /\ At(c, "disconnect_hook")
  /\ connected' = (IF calls[c].ret.out = Ok THEN FALSE ELSE connected)
  /\ Finish(c, calls[c].ret)
  /\ UNCHANGED <<tableVars, cls, inst, ctorError, pool, db, client,
                 transactionClient, inTransaction, engineVars>>

\* ------------------------------------------------------------- transactions

\* Mutant of MongoTransactionError: the call returns normally.
MongoTransactionSilent(op) == Ok

\* MongoDBConnection.beginTransaction / commit / rollback: `throw new Error(...)`
\* as the whole body.
MongoTransactionError(op) == MongoTxUnsupported

\* `if (this._transactionClient)` / `if (this._connection)`: the slot is taken.
TransactionInProgress == transactionClient # 0

\* Mutant of ReleaseAndClear: the slot is cleared but the client never released.
ClearWithoutRelease(k) ==
  [slot |-> 0, out |-> out, releases |-> releases]

\* The terminal calls' `this._transactionClient.release();
\* this._transactionClient = null;` on reserved client k: the slot, the pool's
\* checked-out set and its release count afterwards.
ReleaseAndClear(k) ==
  [slot |-> 0, out |-> out \ {k}, releases |-> [releases EXCEPT ![k] = @ + 1]]

BeginTransaction(c) ==
  /\ CanStart(c)
  /\ "beginTransaction" \in Overrides(cls)
  /\ LET f == Frame("beginTransaction") IN
     CASE cls = Sqlite ->
            \* if (!this._inTransaction) { this._db.prepare("BEGIN").run(); ... }
            IF inTransaction
              THEN /\ Finish(c, Returned(f, Ok))
                   /\ UNCHANGED <<adapterVars, engineVars>>
            ELSE IF db = 0
              THEN /\ Finish(c, Returned(f, TypeError))
                   /\ UNCHANGED <<adapterVars, engineVars>>
            ELSE \E ok \in BOOLEAN :
                   /\ inTransaction' = ok
                   /\ Finish(c, IF ok THEN Returned(Called(f), Ok) ELSE EngineFailure(Called(f)))
                   /\ UNCHANGED <<connected, pool, db, client, transactionClient,
                                  engineVars>>
       [] cls \in Pooled ->
            IF TransactionInProgress
              THEN /\ Finish(c, Rejected(f, AlreadyInProgress))
                   /\ UNCHANGED <<adapterVars, engineVars>>
            ELSE IF pool = 0
              THEN /\ Finish(c, Returned(f, TypeError))
                   /\ UNCHANGED <<adapterVars, engineVars>>
            ELSE \* await this._pool.connect() / getConnection()
                 /\ Suspend(c, [Called(f) EXCEPT !.pc = "acquire"])
                 /\ UNCHANGED <<adapterVars, engineVars>>
       [] cls = Mongo ->
            /\ Finish(c, Returned(f, MongoTransactionError("beginTransaction")))
            /\ UNCHANGED <<adapterVars, engineVars>>
  \* the embedded engine has run BEGIN exactly when the flag went up
  /\ TableBecomes(IF cls = Sqlite /\ ~inTransaction /\ inTransaction'
                    THEN Opened(db) ELSE Table)
  /\ UNCHANGED <<cls, inst, ctorError>>

\* The pool checkout settles; the client is stored in the slot and BEGIN is
\* issued on it.
ClientAcquired(c) ==
  /\ At(c, "acquire")
  /\ \E ok \in BOOLEAN :
       IF ok
         THEN /\ nextClient <= MaxClients
              /\ transactionClient' = nextClient
              /\ out' = out \cup {nextClient}
              /\ nextClient' = nextClient + 1
              /\ Suspend(c, [Called(calls[c]) EXCEPT !.pc = "begin",
                                                     !.client = nextClient])
              /\ UNCHANGED <<connected, pool, db, client, inTransaction,
                             nextResource, live, releases>>
         ELSE /\ Finish(c, EngineFailure(calls[c]))
              /\ UNCHANGED <<adapterVars, engineVars>>
  /\ UNCHANGED <<tableVars, cls, inst, ctorError>>

\* `await client.query("BEGIN")` / `await this._connection.beginTransaction()`
\* settles.
BeginSettles(c) ==
  /\ At(c, "begin")
  /\ \E ok \in BOOLEAN :
       /\ Finish(c, IF ok THEN Returned(calls[c], Ok) ELSE EngineFailure(calls[c]))
       /\ TableBecomes(IF ok THEN Opened(calls[c].client) ELSE Table)
  /\ UNCHANGED <<cls, inst, ctorError, adapterVars, engineVars>>

\* commit() and rollback(): the same code but for the statement.
Terminal(c, op) ==
  /\ CanStart(c)
  /\ op \in TerminalOps \cap Overrides(cls)
  /\ LET f == Frame(op) IN
     CASE cls = Sqlite ->
            \* if (this._inTransaction) { this._db.prepare("COMMIT").run(); ... }
            IF ~inTransaction
              THEN /\ Finish(c, Returned(f, Ok))
                   /\ UNCHANGED <<adapterVars, engineVars>>
            ELSE IF db = 0
              THEN /\ Finish(c, Returned(f, TypeError))
                   /\ UNCHANGED <<adapterVars, engineVars>>
            ELSE \E ok \in BOOLEAN :
                   /\ inTransaction' = ~ok
                   /\ Finish(c, IF ok THEN Returned(Called(f), Ok) ELSE EngineFailure(Called(f)))
                   /\ UNCHANGED <<connected, pool, db, client, transactionClient,
                                  engineVars>>
       [] cls \in Pooled ->
            IF ~TransactionInProgress
              THEN /\ Finish(c, Rejected(f, NoTransaction))
                   /\ UNCHANGED <<adapterVars, engineVars>>
            ELSE \* await this._transactionClient.query("COMMIT")
                 /\ Suspend(c, [Called(f) EXCEPT !.pc = "terminal",
                                                 !.client = transactionClient])
                 /\ UNCHANGED <<adapterVars, engineVars>>
       [] cls = Mongo ->
            /\ Finish(c, Returned(f, MongoTransactionError(op)))
            /\ UNCHANGED <<adapterVars, engineVars>>
  \* the embedded engine has run COMMIT / ROLLBACK exactly when the flag
  \* went down
  /\ TableBecomes(IF cls = Sqlite /\ inTransaction /\ ~inTransaction'
                    THEN Ended(db, op) ELSE Table)
  /\ UNCHANGED <<cls, inst, ctorError>>

\* COMMIT / ROLLBACK, sent on the client that was in the slot at the call,
\* settles; on success the client in the slot, as read now, is released.
\* Postgres clears the slot in the same step; MySQL awaits the value of
\* release() first.
TerminalSettles(c) ==
  /\ At(c, "terminal")
  /\ \E ok \in BOOLEAN :
       /\ TableBecomes(IF ok THEN Ended(calls[c].client, calls[c].op) ELSE Table)
       /\ IF ~ok
            THEN /\ Finish(c, EngineFailure(calls[c]))
                 /\ UNCHANGED <<adapterVars, engineVars>>
          ELSE IF transactionClient = 0
            THEN /\ Finish(c, Returned(calls[c], TypeError))
                 /\ UNCHANGED <<adapterVars, engineVars>>
          ELSE LET k == transactionClient
                   f == [Called(calls[c]) EXCEPT !.client = k] IN
               /\ out' = ReleaseAndClear(k).out
               /\ releases' = ReleaseAndClear(k).releases
               /\ IF cls = Postgres
                    THEN /\ transactionClient' = ReleaseAndClear(k).slot
                         /\ Finish(c, Returned(f, Ok))
                    ELSE /\ transactionClient' = transactionClient
                         /\ Suspend(c, [f EXCEPT !.pc = "release"])
               /\ UNCHANGED <<connected, pool, db, client, inTransaction,
                              nextResource, live, nextClient>>
  /\ UNCHANGED <<cls, inst, ctorError>>

\* MySQL: `await this._connection.release()` settles; this._connection = null.
ReleaseSettles(c) ==
  /\ At(c, "release")
  /\ transactionClient' = ReleaseAndClear(calls[c].client).slot
  /\ Finish(c, Returned(calls[c], Ok))
  /\ UNCHANGED <<tableVars, cls, inst, ctorError, connected, pool, db, client,
                 inTransaction, engineVars>>

\* ------------------------------------------------- CRUD, schema, raw queries

\* The arguments of the calls issued where the connection's life cycle is
\* followed: one row, one id, the empty criteria, four raw statements, a
\* document command that reads and one that deletes every document.
\* createTable is given one of the two schemas; the other schema operations
\* and findBy name the one table, its indexes and its columns.
RawStatements ==
  {FindAllStatement(Mapping(<<>>), NoOptions), DeleteStatement(cls, StrOf(1)),
   Statement("delete"), InsertStatement(cls, Mapping(<<<<"a", 1>>, <<"b", 2>>>>))}
CallArgs(op) ==
  CASE op = "insert" ->
         {[NoArgs EXCEPT !.row = Mapping(<<<<"a", 1>>, <<"b", 2>>>>)]}
    [] op = "update" ->
         {[NoArgs EXCEPT !.arg = StrOf(1), !.upd = Mapping(<<<<"a", 2>>>>)]}
    [] op \in {"delete", "findById"} -> {[NoArgs EXCEPT !.arg = StrOf(1)]}
    [] op \in {"findAll", "findOne", "count"} ->
         {[NoArgs EXCEPT !.arg = Mapping(<<>>)]}
    [] op = "query" -> {[NoArgs EXCEPT !.sql = s] : s \in RawStatements}
    [] op = "mongoCommand" -> {[NoArgs EXCEPT !.cmd = k] : k \in {"ping", "delete"}}
    [] op = "createTable" -> {[NoArgs EXCEPT !.arg = s] : s \in Schemas}
    [] OTHER -> {NoArgs}

\* What the statement or command of op, with arguments x, does to the rows
\* tbl of the table once the engine runs it.
Run(op, x, tbl, nid) ==
  CASE op = "insert" -> insert(cls, tbl, nid, x.row)
    [] op = "update" -> update(cls, tbl, nid, rowid, x.arg, x.upd)
    [] op = "delete" -> delete(cls, tbl, nid, rowid, x.arg)
    [] op = "findById" -> findById(cls, tbl, nid, x.arg)
    [] op = "findAll" -> findAll(cls, tbl, nid, x.arg, x.opts)
    [] op = "findOne" -> findOne(cls, tbl, nid, x.arg, x.opts)
    [] op = "count" -> count(cls, tbl, nid, x.arg)
    [] op = "query" ->
         LET res == SqlExecute(cls, tbl, nid, x.sql)
         IN  Done(res.out, res.rows,
                  IF res.out = Ok /\ x.sql.verb = "insert"
                    THEN res.rs[1].id + 1 ELSE nid,
                  RowArray(res.rs), x.sql, UndefinedValue)
    [] op = "mongoCommand" /\ x.cmd = "delete" ->
         Done(Ok, <<>>, nid, UndefinedValue, NoStatement, UndefinedValue)
    [] OTHER -> Done(Ok, tbl, nid, UndefinedValue, NoStatement, UndefinedValue)

\* The call stores a row.
Inserts(op, x) == op = "insert" \/ (op = "query" /\ x.sql.verb = "insert")

\* The engine still takes the row of an insert.
HasRoom == nextId <= MaxStored

\* What op does to the table t (its rows, its id sequence, whether it
\* exists, whether its ids are AUTOINCREMENT), d being what its statement
\* does to the rows; id is the id of the row it stored, 0 when it stored
\* none. DROP TABLE IF EXISTS takes the rows and the id sequence with the
\* table, CREATE TABLE IF NOT EXISTS brings an empty one back, on SQLite with
\* the id column of the schema it is given, and leaves a table that exists
\* as it is; a statement on a relational table that does not exist fails
\* (DROP INDEX IF EXISTS names no table on SQLite and Postgres). The next id
\* of a SQLite table without AUTOINCREMENT follows the largest id left in
\* it. A collection comes into being with its first document.
Effect(op, x, t, d) ==
  IF op = "dropTable"
    THEN [out |-> Ok, rows |-> <<>>,
          nextId |-> IF cls = Mongo THEN t.nextId ELSE 1,
          exists |-> cls = Mongo, autoinc |-> TRUE, id |-> 0]
  ELSE IF op = "createTable"
    THEN [out |-> Ok, rows |-> t.rows, nextId |-> t.nextId, exists |-> TRUE,
          autoinc |-> IF cls = Sqlite /\ ~t.exists
                        THEN x.arg = AutoincrementSchema ELSE t.autoinc,
          id |-> 0]
  ELSE IF op = "dropIndex" /\ cls \in {Sqlite, Postgres}
    THEN [out |-> Ok, rows |-> t.rows, nextId |-> t.nextId, exists |-> t.exists,
          autoinc |-> t.autoinc, id |-> 0]
  ELSE IF ~t.exists \/ d.out # Ok
    THEN [out |-> IF t.exists THEN d.out ELSE EngineError, rows |-> t.rows,
          nextId |-> t.nextId, exists |-> t.exists, autoinc |-> t.autoinc,
          id |-> 0]
  ELSE [out |-> Ok, rows |-> d.rows,
        nextId |-> IF cls = Sqlite /\ ~t.autoinc THEN MaxId(d.rows) + 1
                   ELSE d.nextId,
        exists |-> t.exists, autoinc |-> t.autoinc,
        id |-> IF Inserts(op, x) THEN d.nextId - 1 ELSE 0]

\* The engine has run the statement of op on connection k (0 is the pool)
\* and answers: ok says that the engine itself did not fail, cur is what the
\* statement does to the table, kept what it does to the table a ROLLBACK
\* would put back. A statement run outside the open transaction changes
\* that table too. Inside it, the ids the pooled engines generate are not
\* given back by a ROLLBACK (SQLite gives them back), a DROP leaves the old
\* table for the ROLLBACK, and on MySQL a schema statement commits. The
\* embedded handle's last_insert_rowid() becomes the id of the row an INSERT
\* stored. out is what the call ends with, the rest the engine's table
\* afterwards.
Executed(op, cur, kept, k, ok) ==
  IF ~ok \/ cur.out # Ok
    THEN [out |-> IF ok THEN cur.out ELSE EngineError, rows |-> rows,
          nextId |-> nextId, exists |-> exists, autoinc |-> autoinc,
          rowid |-> rowid, snapshot |-> snapshot]
    ELSE [out |-> Ok, rows |-> cur.rows, nextId |-> cur.nextId,
          exists |-> cur.exists, autoinc |-> cur.autoinc,
          rowid |-> IF cls = Sqlite /\ cur.id # 0 THEN cur.id ELSE rowid,
          snapshot |->
            IF snapshot.client = 0 THEN snapshot
            ELSE IF snapshot.client # k
              THEN IF kept.out # Ok THEN snapshot
                   ELSE [snapshot EXCEPT !.rows = kept.rows,
                                         !.nextId = kept.nextId,
                                         !.exists = kept.exists,
                                         !.autoinc = kept.autoinc]
            ELSE IF cls = MySQL /\ op \in SchemaOps THEN NoSnapshot
            ELSE IF op = "dropTable"
              THEN [snapshot EXCEPT !.same = @ /\ ~exists]
            ELSE IF cls \in Pooled /\ snapshot.same /\ snapshot.exists
              THEN [snapshot EXCEPT !.nextId = cur.nextId]
            ELSE snapshot]

\* The record of a call of frame f whose statement ended with o.
Answered(f, o) ==
  IF o = EngineError THEN EngineFailure(f) ELSE Returned(f, o)

\* An operation that sends one statement or command to the engine, called
\* with arguments x.
Operation(c, op, x) ==
  /\ CanStart(c)
  /\ op \in DataOps \cap Overrides(cls)
  /\ x \in CallArgs(op)
  /\ LET f == [Frame(op) EXCEPT !.args = x] IN
     CASE cls = Sqlite ->
            \* query(): this._db.prepare(sql) and .all() / .run(), with no
            \* await: the statement has run when the call returns. query()
            \* itself ends there; the other operations `return this.query(...)`
            \* or `await` it, and end when their turn comes.
            \E ok \in BOOLEAN :
            \E d \in {Run(op, x, rows, nextId)} :
            \E s \in {Run(op, x, snapshot.rows, nextId)} :
            \E cur \in {Effect(op, x, Table, d)} :
            \E kept \in {Effect(op, x, [snapshot EXCEPT !.nextId = nextId], s)} :
            \E e \in {Executed(op, cur, kept, db, ok)} :
            \E rec \in {IF db = 0 THEN Returned(f, TypeError)
                         ELSE Answered(Called(f), e.out)} :
              /\ (db # 0 /\ ok /\ Inserts(op, x)) => HasRoom
              /\ db = 0 => ok
              /\ TableBecomes(IF db = 0 THEN Table ELSE e)
              /\ IF op = "query"
                   THEN Finish(c, rec)
                   ELSE Suspend(c, [f EXCEPT !.pc = "query", !.ret = rec])
       [] cls \in Pooled ->
            \* query(): the reserved client if there is one, else the pool;
            \* every other operation awaits this.query(...)
            /\ IF transactionClient = 0 /\ pool = 0
                 THEN IF op = "query"
                        THEN Finish(c, Returned(f, TypeError))
                        ELSE Suspend(c, [f EXCEPT !.pc = "query",
                                                  !.ret = Returned(f, TypeError)])
                 ELSE Suspend(c, [Called(f) EXCEPT !.pc = "engine",
                                                   !.client = transactionClient])
            /\ UNCHANGED tableVars
       [] cls = Mongo ->
            \* getCollection(table) guards this._db; createTable and
            \* mongoCommand use this._db unguarded
            /\ IF db = 0
                 THEN Finish(c, Returned(f, IF op \in CollectionOps
                                                 THEN NotConnected ELSE TypeError))
                 ELSE Suspend(c, [Called(f) EXCEPT !.pc = "engine"])
            /\ UNCHANGED tableVars
  /\ UNCHANGED <<cls, inst, ctorError, adapterVars, engineVars>>

\* The awaited engine call of a CRUD / schema / raw operation settles: the
\* engine has run the statement, on the client the call gave it to.
EngineSettles(c) ==
  /\ At(c, "engine")
  /\ \E ok \in BOOLEAN, f \in {calls[c]} :
     \E d \in {Run(f.op, f.args, rows, nextId)} :
     \E s \in {Run(f.op, f.args, snapshot.rows, nextId)} :
     \E cur \in {Effect(f.op, f.args, Table, d)} :
     \E kept \in {Effect(f.op, f.args, [snapshot EXCEPT !.nextId = nextId], s)} :
     \E e \in {Executed(f.op, cur, kept, f.client, ok)} :
       /\ (ok /\ Inserts(f.op, f.args)) => HasRoom
       /\ TableBecomes(e)
       /\ Finish(c, Answered(f, e.out))
  /\ UNCHANGED <<cls, inst, ctorError, adapterVars, engineVars>>

\* An operation resumes from `await this.query(...)` (or from returning its
\* promise) when query() had already ended: it ends the same way.
QueryReturns(c) ==
  /\ At(c, "query")
  /\ Finish(c, calls[c].ret)
  /\ UNCHANGED <<tableVars, cls, inst, ctorError, adapterVars, engineVars>>

\* ------------------------------------------------------------ specifications

AllOps == DataOps \cup TxOps \cup Hooks

\* A call resumes after one of its awaits.
Resume(c) ==
  /\ \/ MongoClientConnects(c)
     \/ ConnectReturns(c)
     \/ PoolEnds(c)
     \/ MongoClientCloses(c)
     \/ DisconnectReturns(c)
     \/ ClientAcquired(c)
     \/ BeginSettles(c)
     \/ TerminalSettles(c)
     \/ ReleaseSettles(c)
     \/ EngineSettles(c)
     \/ QueryReturns(c)
  /\ UNCHANGED started

\* A call issued while others may be in flight: one of the MaxCalls calls of
\* the run.
Overlapped(call) ==
  /\ started < MaxCalls
  /\ call
  /\ started' = started + 1

\* Calls may overlap: a caller may start a call while another is suspended.
Next ==
  \/ \E t \in Classes, a \in ConfigArgs : Construct(t, a)
  \/ \E c \in Callers : Overlapped(Connect(c))
  \/ \E c \in Callers : Overlapped(Disconnect(c))
  \/ \E c \in Callers : Overlapped(ConnectInternalDirect(c))
  \/ \E c \in Callers : Overlapped(DisconnectInternalDirect(c))
  \/ \E c \in Callers : Overlapped(BeginTransaction(c))
  \/ \E c \in Callers, op \in TerminalOps : Overlapped(Terminal(c, op))
  \/ \E c \in Callers, op \in DataOps :
       \E x \in CallArgs(op) : Overlapped(Operation(c, op, x))
  \/ \E c \in Callers, op \in AllOps : Overlapped(Stub(c, op))
  \/ \E c \in Callers : Resume(c)

Spec == Init /\ [][Next]_vars

\* A call issued once every earlier call has returned.
Awaited(call) ==
  /\ AllIdle
  /\ call
  /\ UNCHANGED started

\* Sequential use: every call is awaited before the next one is issued.
SeqConnect(c) == Awaited(Connect(c))
SeqDisconnect(c) == Awaited(Disconnect(c))
SeqConnectInternal(c) == Awaited(ConnectInternalDirect(c))
SeqDisconnectInternal(c) == Awaited(DisconnectInternalDirect(c))
SeqBeginTransaction(c) == Awaited(BeginTransaction(c))
SeqTerminal(c, op) == Awaited(Terminal(c, op))
SeqOperation(c, op, x) == Awaited(Operation(c, op, x))
SeqStub(c, op) == Awaited(Stub(c, op))

SeqNext ==
  \/ \E t \in Classes, a \in ConfigArgs : Construct(t, a)
  \/ \E c \in Callers : SeqConnect(c)
  \/ \E c \in Callers : SeqDisconnect(c)
  \/ \E c \in Callers : SeqConnectInternal(c)
  \/ \E c \in Callers : SeqDisconnectInternal(c)
  \/ \E c \in Callers : SeqBeginTransaction(c)
  \/ \E c \in Callers, op \in TerminalOps : SeqTerminal(c, op)
  \/ \E c \in Callers, op \in DataOps :
       \E x \in CallArgs(op) : SeqOperation(c, op, x)
  \/ \E c \in Callers, op \in AllOps : SeqStub(c, op)
  \/ \E c \in Callers : Resume(c)

SeqSpec == Init /\ [][SeqNext]_vars

\* ----------------------------------------- awaited CRUD calls, one at a time

\* The values callers pass.
InsertRows == {Mapping(<<<<"a", v>>, <<"b", w>>>>) : v, w \in FieldValues}
\* Ids as numbers and strings; ObjectIds are passed to the document adapter
\* only.
ScalarArgs == {Num(k) : k \in Ids} \cup {StrOf(k) : k \in Ids}
                \cup {ObjectId(k) : k \in Ids}
Passable(x) == x.t = "ObjectId" => cls = Mongo
CriteriaArgs ==
  {Mapping(<<>>)}
    \cup {Mapping(<<<<f, v>>>>) : f \in Fields, v \in FieldValues}
    \cup {Mapping(<<<<"a", v>>, <<"b", w>>>>) : v, w \in FieldValues}
    \cup {Mapping(<<<<"b", w>>, <<"a", v>>>>) : v, w \in FieldValues}
UpdateArgs ==
  {Mapping(<<<<f, v>>>>) : f \in Fields, v \in FieldValues}
    \cup {Mapping(<<<<"a", v>>, <<"b", w>>>>) : v, w \in FieldValues}
Limits == {Undefined} \cup 0..MaxRows
OptionsArgs ==
  {[limit |-> l, offset |-> Undefined, skip |-> Undefined] : l \in Limits}
    \cup {[limit |-> l, offset |-> 1, skip |-> Undefined] : l \in Limits}
    \cup {[limit |-> l, offset |-> Undefined, skip |-> 1] : l \in Limits}

lifecycleVars == <<cls, inst, ctorError, ctorArg, adapterVars, engineVars, calls,
                   begun, started, snapshot>>

\* The adapter is connected and no call is in flight.
Connected == inst = "ok" /\ cls \in Adapters /\ connected /\ AllIdle

\* The caller is free to issue its next call: it holds no result of an
\* earlier one.
CrudReady == Connected /\ crud = NoCrud

\* What a call answers on the table as it is, r being what its statement
\* does to the rows: the engine rejects every statement on a relational table
\* that does not exist ("no such table"; on SQLite prepare() throws it before
\* any parameter is bound).
OnTable(r) ==
  IF exists THEN r
  ELSE [r EXCEPT !.out = EngineError, !.ret = UndefinedValue,
                 !.filter = UndefinedValue]

\* The awaited call of op returns: result is what its statement does to the
\* rows, Effect what the call does to the table. The record of the call is
\* kept in crud (before is the table's rows as the call found them; row and
\* chained tie a findById to the insert whose value it was given).
Settle(op, arg, upd, opts, row, chained, result) ==
  \E r \in {result} :
  \E e \in {Effect(op, [NoArgs EXCEPT !.arg = arg], Table, r)} :
  /\ crud' = [op |-> op, arg |-> arg, upd |-> upd, opts |-> opts, row |-> row,
              chained |-> chained, before |-> rows, out |-> e.out,
              ret |-> IF e.out = Ok THEN r.ret ELSE UndefinedValue,
              stmt |-> r.stmt,
              filter |-> IF e.out = r.out THEN r.filter ELSE UndefinedValue]
  /\ rows' = e.rows
  /\ nextId' = e.nextId
  /\ exists' = e.exists
  /\ autoinc' = e.autoinc
  /\ rowid' = (IF cls = Sqlite /\ e.id # 0 THEN e.id ELSE rowid)
  /\ last' = [NoCall EXCEPT !.op = op, !.out = e.out, !.preConnected = TRUE,
                            !.preActive = TxActive, !.ecalls = 1,
                            !.efail = IF e.out = EngineError THEN 1 ELSE 0]
  /\ UNCHANGED <<lifecycleVars, envVars>>

\* createTable(table, schema) with one of the schemas of the one table:
\* CREATE TABLE IF NOT EXISTS. SQLite resolves to the run result of the
\* statement (rid is the handle's last_insert_rowid()), the pooled adapters
\* to undefined, MongoDB to the collection.
createTable(c, tbl, nid, rid) ==
  Done(Ok, tbl, nid,
       CASE c = Sqlite -> RunResult(0, rid)
         [] c \in Pooled -> UndefinedValue
         [] c = Mongo -> Value("collection"),
       NoStatement, UndefinedValue)

CreateTable(schema) ==
  /\ CrudReady
  /\ Settle("createTable", schema, UndefinedValue, NoOptions,
            UndefinedValue, FALSE, createTable(cls, rows, nextId, rowid))

Insert(row) ==
  /\ CrudReady
  /\ Len(rows) < MaxRows
  /\ nextId <= MaxInserts
  /\ Settle("insert", UndefinedValue, UndefinedValue, NoOptions, row, FALSE,
            insert(cls, rows, nextId, row))

Update(idOrCriteria, updates) ==
  /\ CrudReady
  /\ Passable(idOrCriteria)
  /\ Settle("update", idOrCriteria, updates, NoOptions, UndefinedValue, FALSE,
            update(cls, rows, nextId, rowid, idOrCriteria, updates))

Delete(idOrCriteria) ==
  /\ CrudReady
  /\ Passable(idOrCriteria)
  /\ Settle("delete", idOrCriteria, UndefinedValue, NoOptions, UndefinedValue,
            FALSE, delete(cls, rows, nextId, rowid, idOrCriteria))

\* findById with an id of the caller's ...
FindById(id) ==
  /\ CrudReady
  /\ Passable(id)
  /\ Settle("findById", id, UndefinedValue, NoOptions, UndefinedValue, FALSE,
            findById(cls, rows, nextId, id))

\* ... or, right after an insert, with the value that insert resolved to.
FindInserted ==
  /\ Connected
  /\ crud.op = "insert"
  /\ crud.out = Ok
  /\ Settle("findById", crud.ret, UndefinedValue, NoOptions, crud.row, TRUE,
            findById(cls, rows, nextId, crud.ret))

FindAll(criteria, options) ==
  /\ CrudReady
  /\ Settle("findAll", criteria, UndefinedValue, options, UndefinedValue, FALSE,
            findAll(cls, rows, nextId, criteria, options))

FindOne(criteria, options) ==
  /\ CrudReady
  /\ Settle("findOne", criteria, UndefinedValue, options, UndefinedValue, FALSE,
            findOne(cls, rows, nextId, criteria, options))

Count(criteria) ==
  /\ CrudReady
  /\ Settle("count", criteria, UndefinedValue, NoOptions, UndefinedValue, FALSE,
            count(cls, rows, nextId, criteria))

\* The caller's code after the `await` runs on and lets go of the result.
CallerContinues ==
  /\ Connected
  /\ crud # NoCrud
  /\ crud' = NoCrud
  /\ last' = NoCall
  /\ UNCHANGED <<lifecycleVars, tableVars, envVars>>

\* A connected adapter of class target: the state in which `new target(null)`
\* followed by an awaited connect() leaves the instance. The servers of the
\* pooled and the document adapters hold the table, empty; the database the
\* embedded adapter has just opened holds no table.
CrudInit ==
  /\ cls \in Adapters
  /\ inst = "ok"
  /\ ctorError = Ok
  /\ ctorArg = "null"
  /\ connected = TRUE
  /\ pool = (IF cls \in Pooled THEN 1 ELSE 0)
  /\ db = (IF cls \in {Sqlite, Mongo} THEN 1 ELSE 0)
  /\ client = (IF cls = Mongo THEN 1 ELSE 0)
  /\ transactionClient = 0
  /\ inTransaction = FALSE
  /\ nextResource = 2
  /\ live = {1}
  /\ nextClient = 1
  /\ out = {}
  /\ releases = [k \in ClientIds |-> 0]
  /\ calls = [c \in Callers |-> IdleCall]
  /\ last = [NoCall EXCEPT !.op = "connect", !.out = Ok, !.ecalls = 1]
  /\ rows = <<>>
  /\ nextId = 1
  /\ crud = NoCrud
  /\ begun = 0
  /\ started = 0
  /\ exists = (cls # Sqlite)
  /\ autoinc = TRUE
  /\ rowid = 0
  /\ snapshot = NoSnapshot
  /\ EnvLoaded("unset", "unset")

\* The arguments the caller may give its next call: none while it still
\* holds the result of the last one.
Offered(S) == IF crud = NoCrud THEN S ELSE {}

CrudNext ==
  \/ \E s \in Offered(Schemas) : CreateTable(s)
  \/ \E row \in Offered(InsertRows) : Insert(row)
  \/ \E x \in Offered(ScalarArgs \cup CriteriaArgs), u \in UpdateArgs : Update(x, u)
  \/ \E x \in Offered(ScalarArgs \cup CriteriaArgs) : Delete(x)
  \/ \E id \in Offered(ScalarArgs) : FindById(id)
  \/ FindInserted
  \/ \E m \in Offered(CriteriaArgs), o \in OptionsArgs : FindAll(m, o)
  \/ \E m \in Offered(CriteriaArgs), o \in OptionsArgs : FindOne(m, o)
  \/ \E m \in Offered(CriteriaArgs) : Count(m)
  \/ CallerContinues

CrudSpec == CrudInit /\ [][CrudNext]_vars

\* ------------------------------------------------ the env singleton (env.js)

\* The length ENCRYPT_KEY must have.
KeyLength == 64

\* Values of NODE_ENV and ENCRYPT_KEY; "unset" is a variable that is not set.
NodeEnvValues == {"unset", "   ", "test", " PROD ", "staging"}
KeyValues == {"unset", "", "short", "key64", " key64 "}

\* mode.trim().toLowerCase()
TrimLower(mode) ==
  CASE mode = "   " -> ""
    [] mode = " PROD " -> "prod"
    [] OTHER -> mode

\* key.trim().length
TrimmedLength(key) ==
  CASE key = "" -> 0
    [] key = "short" -> KeyLength - 1
    [] OTHER -> KeyLength

\* Object.values(Environment.VALID_MODES).flat()
AllValidModes ==
  {"prod", "production", "dev", "development", "debug", "debugging", "test",
   "testing"}

InvalidNodeEnv == "Invalid NODE_ENV value"
KeyMissing == "The ENCRYPT_KEY environment variable is missing"
KeyLengthWrong == "The ENCRYPT_KEY environment variable must have a length of 64"

\* new Environment(): what the constructor makes of process.env, message
\* being "none" when it returns and the EnvError's message when it throws.
NewEnvironment(penv) ==
  LET mode == IF penv.NODE_ENV = "unset" \/ TrimLower(penv.NODE_ENV) = ""
                THEN "production" ELSE TrimLower(penv.NODE_ENV)
      key == penv.ENCRYPT_KEY
      message ==
        IF mode \notin AllValidModes THEN InvalidNodeEnv
        ELSE IF key = "unset" \/ key = "" THEN KeyMissing
        ELSE IF TrimmedLength(key) # KeyLength THEN KeyLengthWrong
        ELSE "none"
  IN  [mode |-> mode, encryptKey |-> key, message |-> message]

EnvError == "EnvError"

adapterSide == <<lifecycleVars, last, dataVars>>

\* The record of an access that ends now.
Access(op, o, instance, error, read, logged) ==
  [op |-> op, out |-> o, instance |-> instance, error |-> error,
   read |-> read, logged |-> logged, hadInstance |-> envInstance.id,
   hadError |-> envError.id]

\* Mutant of CachedInstance: the getter never takes the cached instance.
NeverCached == FALSE

\* `if (_env)`
CachedInstance == envInstance.id # 0

\* Mutant of CachedError: the getter never takes the cached error.
ErrorNeverCached == FALSE

\* `if (_envError)`
CachedError == envError.id # 0

\* get env()
GetEnv ==
  /\ IF CachedInstance
       THEN /\ envAccess' = Access("env", Ok, envInstance.id, 0, FALSE, FALSE)
            /\ UNCHANGED <<envInstance, envError, envInitializedLogged,
                           envCreated>>
     ELSE IF CachedError
       THEN /\ envAccess' = Access("env", EnvError, 0, envError.id, FALSE, FALSE)
            /\ UNCHANGED <<envInstance, envError, envInitializedLogged,
                           envCreated>>
     ELSE /\ envCreated < MaxEnvObjects
          /\ envCreated' = envCreated + 1
          /\ \E made \in {NewEnvironment(processEnv)} :
               IF made.message = "none"
                 THEN /\ envInstance' = [id |-> envCreated + 1,
                                         mode |-> made.mode,
                                         encryptKey |-> made.encryptKey]
                      /\ envInitializedLogged' = TRUE
                      /\ envAccess' = Access("env", Ok, envCreated + 1, 0, TRUE,
                                             ~envInitializedLogged)
                      /\ UNCHANGED envError
                 ELSE /\ envError' = [id |-> envCreated + 1,
                                      message |-> made.message]
                      /\ envAccess' = Access("env", EnvError, 0, envCreated + 1,
                                             TRUE, FALSE)
                      /\ UNCHANGED <<envInstance, envInitializedLogged>>
  /\ UNCHANGED <<processEnv, adapterSide>>

\* _clearEnvSingleton()
ClearEnvSingleton ==
  /\ envInstance' = NoEnvironment
  /\ envError' = NoEnvError
  /\ envInitializedLogged' = FALSE
  /\ envAccess' = Access("clear", Ok, 0, 0, FALSE, FALSE)
  /\ UNCHANGED <<processEnv, envCreated, adapterSide>>

\* The process changes its environment: process.env.NODE_ENV = ...,
\* process.env.ENCRYPT_KEY = ... or delete.
SetProcessEnv(nodeEnv, key) ==
  /\ processEnv # [NODE_ENV |-> nodeEnv, ENCRYPT_KEY |-> key]
  /\ processEnv' = [NODE_ENV |-> nodeEnv, ENCRYPT_KEY |-> key]
  /\ envAccess' = Access("process.env", Ok, 0, 0, FALSE, FALSE)
  /\ UNCHANGED <<envInstance, envError, envInitializedLogged, envCreated,
                 adapterSide>>

EnvInit ==
  /\ AdapterInit
  /\ \E nodeEnv \in NodeEnvValues, key \in KeyValues : EnvLoaded(nodeEnv, key)

EnvNext ==
  \/ GetEnv
  \/ ClearEnvSingleton
  \/ \E nodeEnv \in NodeEnvValues, key \in KeyValues : SetProcessEnv(nodeEnv, key)

EnvSpec == EnvInit /\ [][EnvNext]_vars

\* ------------------------------------------------------------------- claims

\* A call of op starts in this step, from a state with no call in flight.
StartsAlone(op) ==
  /\ AllIdle
  /\ inst = "ok"
  /\ \/ last'.op = op
     \/ \E c \in Callers : calls'[c].op = op

\* C1: on each relational adapter, beginTransaction() while a transaction is
\* Active fails with "transaction already in progress" and the transaction
\* stays Active. (The embedded adapter returns normally instead.)
C1_SecondBeginFails ==
  (cls \in Relational /\ last.op = "beginTransaction" /\ last.preActive)
    => (last.out = AlreadyInProgress /\ TxActive)

\* C2: on each relational adapter, commit() or rollback() while no transaction
\* is Active fails with "no transaction in progress". (The embedded adapter
\* returns normally instead.)
C2_TerminalWithoutTransactionFails ==
  (cls \in Relational /\ last.op \in TerminalOps /\ ~last.preActive)
    => last.out = NoTransaction

\* C3: single slot. After any sequence of awaited connect, disconnect,
\* beginTransaction, commit and rollback calls, a pooled adapter holds exactly
\* one client checked out when its TransactionState is Active (the one in the
\* slot) and none when it is Idle.
C3_SingleSlot ==
  (inst = "ok" /\ AllIdle /\ cls \in Pooled)
    => /\ Cardinality(out) = (IF TxActive THEN 1 ELSE 0)
       /\ out = (IF TxActive THEN {transactionClient} ELSE {})

C3_Witness ==
  /\ cls \in Pooled
  /\ AllIdle
  /\ last.op = "beginTransaction"
  /\ last.out = Ok
  /\ TxActive
  /\ out = {transactionClient}

\* C4: on the pooled adapters no client is released more than once; the
\* commit() or rollback() called while a transaction is Active has, once it
\* has returned or thrown, released the reserved client exactly once and
\* emptied the slot, so that no client is left checked out; and a terminal
\* call made when none is Active fails with "no transaction in progress"
\* without calling the pool or the engine. (A terminal call whose COMMIT or
\* ROLLBACK the engine rejects throws before it releases: the client stays
\* checked out and in the slot.)
C4_ReleasedExactlyOnce ==
  (inst = "ok" /\ cls \in Pooled)
    => /\ \A k \in ClientIds : releases[k] <= 1
       /\ (last.op \in TerminalOps /\ last.preActive)
            => /\ last.client \in ClientIds
               /\ releases[last.client] = 1
               /\ last.client \notin out
               /\ transactionClient = 0
       /\ (last.op \in TerminalOps /\ ~last.preActive)
            => (last.out = NoTransaction /\ last.ecalls = 0)

\* C5: when two beginTransaction() calls on a pooled adapter overlap, only one
\* starts the transaction and only one client is checked out of the pool.
\* (Both pass the guard while the first awaits the checkout.)
C5_OverlappedBeginTakesOneClient ==
  cls \in Pooled => Cardinality(out) <= 1

\* C6: on each adapter, every CRUD, schema and transaction operation invoked
\* while Disconnected fails with the error that reports the adapter is not
\* connected. (Most fail with a TypeError or another error, some succeed.)
C6_LifecycleGuard ==
  (cls \in Adapters /\ last.op \in CrudOps \cup SchemaOps \cup TxOps
     /\ ~last.preConnected)
    => last.out = NotConnected

\* C7: the connection state is Disconnected or Connected; a connect() on a
\* Connected adapter and a disconnect() on a Disconnected one return normally,
\* call the engine not at all and change nothing, so a second awaited
\* connect() creates no second pool, handle or client.
C7_IdempotentLifecycle ==
  /\ [](connected \in BOOLEAN)
  /\ [][(StartsAlone("connect") /\ connected)
          => /\ last'.op = "connect"
             /\ last'.out = Ok
             /\ last'.ecalls = 0
             /\ connected'
             /\ UNCHANGED <<adapterVars, engineVars>>]_vars
  /\ [][(StartsAlone("disconnect") /\ ~connected)
          => /\ last'.op = "disconnect"
             /\ last'.out = Ok
             /\ last'.ecalls = 0
             /\ ~connected'
             /\ UNCHANGED <<adapterVars, engineVars>>]_vars

C7_Witness ==
  /\ last.op = "connect"
  /\ last.preConnected
  /\ last.out = Ok
  /\ connected
  /\ Cardinality(live) = 1

\* C8: after disconnect() completes on a Connected adapter, the adapter is
\* Disconnected, holds no pool, handle or reserved client, and its
\* TransactionState is Idle. (The transaction slot and flag are left as they
\* were.)
C8_DisconnectCleans ==
  (cls \in Adapters /\ last.op = "disconnect" /\ last.preConnected
     /\ last.out = Ok)
    => /\ ~connected
       /\ pool = 0 /\ db = 0 /\ client = 0
       /\ transactionClient = 0
       /\ ~inTransaction

\* C9: an operation of the contract that the class of the instance does not
\* override fails with "<Class>.<operation> is not implemented", naming that
\* class and that operation; a connect() that reaches an unimplemented
\* _connectInternal fails the same way and leaves the adapter Disconnected.
C9_ContractViolation ==
  inst = "ok"
    => /\ (last.op \in AllOps \ Overrides(cls))
            => /\ last.out = NotImplemented
               /\ last.errCls = cls
               /\ last.errOp = last.op
       /\ (last.op = "connect" /\ ~last.preConnected
             /\ "_connectInternal" \notin Overrides(cls))
            => /\ last.out = NotImplemented
               /\ last.errCls = cls
               /\ last.errOp = "_connectInternal"
               /\ ~connected

C9_Witness ==
  /\ cls = Bare
  /\ last.op = "connect"
  /\ last.out = NotImplemented
  /\ last.errCls = Bare
  /\ last.errOp = "_connectInternal"
  /\ ~connected

\* C10: constructing DBConnection itself fails for every configuration
\* argument: no instance of the contract class exists.
C10_AbstractNeverConstructed ==
  cls = Abstract => (inst = "failed" /\ ctorError # Ok)

C10_Witness ==
  /\ cls = Abstract
  /\ inst = "failed"
  /\ ctorError = AbstractError

\* C11: constructing a concrete adapter with a configuration object, or with
\* no argument, succeeds and yields a Disconnected, Idle instance. (The
\* Configurable constructor throws on every such argument.)
C11_AdapterConstructs ==
  (cls \in Adapters /\ ctorArg \in {"undefined", "emptyObject", "object"})
    => (inst = "ok" /\ ~connected /\ ~TxActive)

\* C12: on the document adapter, beginTransaction(), commit() and rollback()
\* fail on every call, in every connection state, without calling the engine
\* and without changing the adapter's or the engine's state.
C12_MongoTransactionsFail ==
  /\ []((cls = Mongo /\ last.op \in TxOps)
          => (last.out # Ok /\ last.out = MongoTxUnsupported /\ last.ecalls = 0))
  /\ [][(cls = Mongo /\ last'.op \in TxOps)
          => UNCHANGED <<adapterVars, engineVars, dataVars>>]_vars
  /\ [][(cls = Mongo /\ \E c \in Callers : calls'[c].op \in TxOps)
          => FALSE]_vars

C12_Witness ==
  /\ cls = Mongo
  /\ connected
  /\ last.op = "commit"
  /\ last.out = MongoTxUnsupported

\* Row r is selected by idOrCriteria as the contract reads it: a scalar is
\* the value of the id column, a mapping the AND of its field = value
\* predicates.
SelectedBy(r, x) ==
  IF x.t = "object"
    THEN \A i \in 1..Len(x.m) : r[x.m[i][1]] = x.m[i][2]
    ELSE r.id = (IF x.t = "ObjectId" THEN x.id ELSE x.n)

\* The table tbl after every selected row took the updates.
UpdatedWhereSelected(tbl, x, updates) ==
  [i \in 1..Len(tbl) |->
     IF SelectedBy(tbl[i], x) THEN SetFields(tbl[i], updates) ELSE tbl[i]]

\* The rows of tbl that are selected, and those that are not.
SelectedRows(tbl, x) ==
  LET Hit(r) == SelectedBy(r, x) IN SelectSeq(tbl, Hit)
OtherRows(tbl, x) ==
  LET Miss(r) == ~SelectedBy(r, x) IN SelectSeq(tbl, Miss)

\* C13: insert / read round trip. On every adapter the value insert resolved
\* to, passed unchanged to findById, finds a row whose fields equal the
\* inserted row's. (Only the document adapter's insert resolves to an id.)
C13_InsertReadRoundTrip ==
  (crud.op = "findById" /\ crud.chained)
    => /\ crud.out = Ok
       /\ crud.ret.t = "row"
       /\ crud.ret.rs[1].a = SetFields([id |-> 0, a |-> 0, b |-> 0], crud.row).a
       /\ crud.ret.rs[1].b = SetFields([id |-> 0, a |-> 0, b |-> 0], crud.row).b

\* C14: on every adapter update and delete resolve to the affected-row count,
\* an integer, and when nothing is selected they resolve to 0 without an error
\* and leave the table as it was. (Postgres' update resolves to an array of
\* rows, SQLite's update and delete to the run result.)
C14_AffectedCountIsInteger ==
  crud.op \in {"update", "delete"}
    => /\ crud.out = Ok => crud.ret.t = "number"
       /\ SelectedRows(crud.before, crud.arg) = <<>>
            => (crud.out = Ok /\ crud.ret = Num(0) /\ rows = crud.before)

\* C15: on every adapter delete with a criteria mapping removes every row that
\* satisfies the predicates, resolves to their number, leaves the other rows
\* untouched, and a findAll for the same criteria then finds nothing. (The
\* document adapter removes one document; the embedded adapter binds the
\* mapping as an id.)
C15_DeleteRemovesEveryMatch ==
  (crud.op = "delete" /\ crud.arg.t = "object")
    => /\ crud.out = Ok
       /\ rows = OtherRows(crud.before, crud.arg)
       /\ crud.ret = Num(Len(SelectedRows(crud.before, crud.arg)))
       /\ findAll(cls, rows, nextId, crud.arg, NoOptions).ret = RowArray(<<>>)

\* C16: on every adapter, after an update that returned, every row selected by
\* the id or the criteria carries the new values, its other fields and the
\* other rows are as before. (The document adapter updates one document.)
C16_UpdateReachesEveryMatch ==
  (crud.op = "update" /\ crud.out = Ok)
    => rows = UpdatedWhereSelected(crud.before, crud.arg, crud.upd)

\* C17: on the three relational adapters update and delete dispatch on the
\* shape of idOrCriteria: the call succeeds and acts on exactly the rows whose
\* id equals the scalar, or that satisfy every predicate of the mapping. (The
\* embedded adapter treats every argument as an id.)
C17_RelationalDispatchOnShape ==
  (cls \in Relational /\ crud.op \in {"update", "delete"})
    => /\ crud.out = Ok
       /\ crud.op = "update"
            => rows = UpdatedWhereSelected(crud.before, crud.arg, crud.upd)
       /\ crud.op = "delete" => rows = OtherRows(crud.before, crud.arg)

\* C18: on the document adapter update and delete turn a scalar, string or
\* number, into a filter on the document id in the engine's id type and pass
\* a mapping on unchanged. (A number is passed on as it is.)
C18_ScalarBecomesIdFilter ==
  (cls = Mongo /\ crud.op \in {"update", "delete"})
    => crud.filter = (IF crud.arg.t = "object" THEN crud.arg
                      ELSE IdFilter(IF crud.arg.t = "ObjectId" THEN crud.arg.id
                                    ELSE crud.arg.n))

\* C19: on every adapter findOne(table, criteria, options) resolves to the
\* first element of findAll(table, criteria, options with limit forced to 1),
\* or to null when that is empty, and fails when that fails, whatever limit
\* the caller put in options.
C19_FindOneIsFindAllLimitOne ==
  crud.op = "findOne"
    => LET all == OnTable(findAll(cls, crud.before, nextId, crud.arg,
                                  [crud.opts EXCEPT !.limit = 1]))
       IN  /\ crud.out = all.out
           /\ crud.out = Ok => crud.ret = FirstOrNull(all.ret.rs)
           /\ rows = crud.before

C19_Witness ==
  /\ crud.op = "findOne"
  /\ crud.out = Ok
  /\ crud.opts.limit = MaxRows
  /\ crud.opts.offset = 1
  /\ cls \in Relational
  /\ crud.ret.t = "row"
  /\ crud.ret.rs[1] = crud.before[MaxRows]

\* C20: on every adapter findAll(table, criteria, {limit: n}) resolves to at
\* most n rows for every limit n the caller supplies, each satisfying the
\* criteria. (A limit of 0 is taken as no limit.)
C20_LimitBoundsResult ==
  (crud.op = "findAll" /\ crud.out = Ok /\ crud.opts.limit # Undefined)
    => /\ Len(crud.ret.rs) <= crud.opts.limit
       /\ \A i \in 1..Len(crud.ret.rs) : SelectedBy(crud.ret.rs[i], crud.arg)

\* C21: on every adapter, for every criteria mapping and table content,
\* count(table, criteria) resolves to an integer, the number of rows that
\* findAll(table, criteria) without limit or offset returns, 0 included, and
\* leaves the table as it was; where there is no table, count is rejected as
\* findAll is.
C21_CountIsFindAllLength ==
  crud.op = "count"
    => LET all == OnTable(findAll(cls, crud.before, nextId, crud.arg, NoOptions))
       IN  /\ crud.out = all.out
           /\ exists => /\ crud.out = Ok
                        /\ crud.ret = Num(Len(all.ret.rs))
           /\ ~exists => crud.out = EngineError
           /\ rows = crud.before

C21_Witness ==
  /\ crud.op = "count"
  /\ crud.out = Ok
  /\ crud.ret = Num(1)
  /\ Len(crud.before) = MaxRows
  /\ crud.arg.m # <<>>

\* C22: when the engine fails during a CRUD, schema or transaction operation,
\* the call ends there with the engine's error: the failed engine call is the
\* only one that failed (it is not issued again), a statement is issued once,
\* a transaction call makes at most its two engine calls, and the caller
\* never gets a normal return.
C22_EngineErrorPropagates ==
  (last.op \in DataOps \cup TxOps /\ last.efail > 0)
    => /\ last.out = EngineError
       /\ last.efail = 1
       /\ last.ecalls <= (IF last.op \in DataOps THEN 1 ELSE 2)

C22_Witness ==
  /\ cls = Postgres
  /\ last.op = "commit"
  /\ last.efail = 1
  /\ last.out = EngineError

\* C23: a transaction call rejected because of the TransactionState
\* (beginTransaction while Active, commit or rollback while Idle) has made no
\* call to the engine or the pool, and the step in which it is rejected
\* leaves the connection state, the TransactionState, the reserved client and
\* the engine as they were.
C23_RejectionTouchesNothing ==
  [][(last'.op \in TxOps /\ last'.out \in {AlreadyInProgress, NoTransaction})
       => /\ last'.ecalls = 0
          /\ AllIdle
          /\ UNCHANGED <<adapterVars, engineVars, dataVars>>]_vars

C23_Witness ==
  /\ cls = MySQL
  /\ last.op = "beginTransaction"
  /\ last.out = AlreadyInProgress
  /\ last.ecalls = 0
  /\ transactionClient # 0

\* C24: the env accessor is a cached singleton. An access made while an
\* instance is cached returns that instance, does not construct (so does not
\* read NODE_ENV or ENCRYPT_KEY) and does not log; the cached instance stays
\* the same until _clearEnvSingleton() is called.
C24_CachedSingleton ==
  /\ []((envAccess.op = "env" /\ envAccess.hadInstance # 0)
          => /\ envAccess.out = Ok
             /\ envAccess.instance = envAccess.hadInstance
             /\ ~envAccess.read
             /\ ~envAccess.logged)
  /\ [][(envInstance.id # 0 /\ envAccess'.op # "clear")
          => envInstance' = envInstance]_vars

C24_Witness ==
  /\ envAccess.op = "env"
  /\ envAccess.hadInstance # 0
  /\ envAccess.instance = envAccess.hadInstance
  /\ NewEnvironment(processEnv).message # "none"

\* C25: a failed initialisation is cached. An access made while an error is
\* cached throws that same error without constructing again, even when the
\* environment variables are valid by then; the cached error stays until
\* _clearEnvSingleton(), which resets the cached instance and the cached
\* error.
C25_CachedError ==
  /\ []((envAccess.op = "env" /\ envAccess.hadError # 0)
          => /\ envAccess.out = EnvError
             /\ envAccess.error = envAccess.hadError
             /\ ~envAccess.read)
  /\ [][(envError.id # 0 /\ envAccess'.op # "clear")
          => envError' = envError]_vars
  /\ [][envAccess'.op = "clear"
          => (envInstance' = NoEnvironment /\ envError' = NoEnvError)]_vars

C25_Witness ==
  /\ envAccess.op = "env"
  /\ envAccess.hadError # 0
  /\ envAccess.error = envAccess.hadError
  /\ NewEnvironment(processEnv).message = "none"

\* C26: on the pooled adapters a statement issued between a beginTransaction()
\* that succeeded and the commit() or rollback() that ends it is executed on
\* the client reserved for that transaction, and a statement issued at any
\* other time through the pool (client 0). (After a beginTransaction() that
\* failed at BEGIN the reserved client stays in the slot and takes the
\* statements.)
C26_StatementsFollowTransaction ==
  [][\A c \in Callers :
       (cls \in Pooled /\ calls[c].pc = "idle" /\ calls'[c].pc = "engine")
         => calls'[c].client = begun]_vars

\* The value object entries m gives to column col.
ValueOf(m, col) ==
  LET i == CHOOSE i \in 1..Len(m) : m[i][1] = col
  IN  Num(m[i][2])

\* The value the caller meant for the WHERE predicate on column col: the
\* criteria's value for that column, or the id it passed instead of one.
FilterValue(idOrCriteria, col) ==
  IF TypeofObject(idOrCriteria) THEN ValueOf(Entries(idOrCriteria), col)
  ELSE idOrCriteria

\* The columns the WHERE clause of a call must test.
FilterColumns(idOrCriteria) ==
  IF TypeofObject(idOrCriteria) THEN Keys(Entries(idOrCriteria))
  ELSE <<"id">>

\* C27: in the statement the Postgres adapter's update, delete, findAll
\* (findOne) and count generate, the SET assignments take $1..$k in the order
\* of the update's columns and the WHERE predicates $k+1..$k+m in the order of
\* the criteria's columns, the parameter array has length k+m, and the
\* parameter at each placeholder is the value of the column that uses it.
C27_PlaceholdersPairWithParams ==
  (cls = Postgres
     /\ crud.op \in {"update", "delete", "findAll", "findOne", "count"})
    => LET s == crud.stmt
           k == Len(s.set)
           m == Len(s.where)
       IN  /\ Keys(s.set) = Keys(Entries(crud.upd))
           /\ Keys(s.where) = FilterColumns(crud.arg)
           /\ Len(s.params) = k + m
           /\ \A i \in 1..k :
                /\ s.set[i][2] = i
                /\ s.params[i] = ValueOf(Entries(crud.upd), s.set[i][1])
           /\ \A j \in 1..m :
                /\ s.where[j][2] = k + j
                /\ s.params[k + j] = FilterValue(crud.arg, s.where[j][1])

\* An update of two columns selected by a criteria of two columns, given in
\* the other order.
C27_Witness ==
  /\ cls = Postgres
  /\ crud.op = "update"
  /\ Len(crud.stmt.set) = 2
  /\ Keys(crud.stmt.where) = <<"b", "a">>
  /\ crud.out = Ok

\* Caller c issues connect() in this step while the connect() of another
\* caller, begun on the disconnected adapter, has not finished.
SecondConnectOverlaps(c) ==
  /\ calls[c].pc = "idle"
  /\ calls'[c].op = "connect"
  /\ calls'[c].pc # "idle"
  /\ \E d \in Callers \ {c} :
       calls[d].op = "connect" /\ calls[d].pc # "idle" /\ ~calls[d].preConnected

\* C28: when a connect() is issued on the disconnected adapter while another
\* connect() is still in flight, no further pool, handle or client is created
\* and the adapter keeps the one it has: at most one engine resource exists
\* and none is lost. (The second call finds _connected false and creates its
\* own.)
C28_OverlappedConnectCreatesOne ==
  [][\A c \in Callers :
       SecondConnectOverlaps(c)
         => /\ live' = live
            /\ <<pool, db, client>>' = <<pool, db, client>>]_vars

\* C29: after a connect() that the engine rejected, the adapter is
\* disconnected and holds no pool, handle or client. (The document adapter
\* stores the MongoClient before it awaits client.connect() and keeps it when
\* that rejects.)
C29_FailedConnectKeepsNothing ==
  (last.op = "connect" /\ last.out = EngineError)
    => /\ ~connected
       /\ pool = 0
       /\ db = 0
       /\ client = 0

\* C30: on the pooled adapters, after a beginTransaction() that failed at the
\* pool checkout or at BEGIN, no client is reserved and the client the call
\* checked out, if any, is back in the pool. (When BEGIN is rejected the
\* client stays in the slot, checked out, and the next beginTransaction() is
\* refused.)
C30_FailedBeginLeavesIdle ==
  (cls \in Pooled /\ last.op = "beginTransaction" /\ last.out = EngineError)
    => /\ transactionClient = 0
       /\ last.client \notin out

====

